---- MODULE Spec2Model ----
(***************************************************************************)
(* Video library server (src/server.js): path sanitization, the browse,    *)
(* search, video, image and download handlers, the recursive search, the   *)
(* byte-range arithmetic of the streaming endpoint, the session and the    *)
(* handlers that change the library and the albums.                        *)
(*                                                                         *)
(* Strings are sequences of one-character strings, so that prefix tests,   *)
(* the traversal regular expression and extension parsing are computed     *)
(* character by character as the JavaScript does.  Paths follow the POSIX  *)
(* rules of Node's path module (the server runs on node:20-alpine): "/" is *)
(* the only separator and a backslash is an ordinary character.            *)
(***************************************************************************)
EXTENDS Integers, Sequences, FiniteSets, TLC

VARIABLES
    pc,         \* "idle": waiting for a request; "done": a response was sent
    endpoint,   \* the handler that served the last request
    reqPath,    \* req.query.path, <<>> when missing or empty
    reqQuery,   \* req.query.q, <<>> when missing or empty
    reqRange,   \* req.headers.range, <<>> when absent
    reqBody,    \* req.body and req.params of the last request
    reqHost,    \* the Host header, as its parts between ':', <<>> when absent
    maxResults, \* the maxResults argument of searchVideosRecursive
    sanitized,  \* what sanitizePath did in this request
    status,     \* HTTP status of the response, 0 before any
    headers,    \* response headers written by writeHead/setHeader
    body,       \* description of the response body
    fsOps,      \* filesystem calls made by the request, in order
    fs,         \* the filesystem: absolute path -> [kind, size, mtime, err]
    config,     \* the settings read from config.json that requests depend on
    session,    \* req.session of the client
    db,         \* the albums and album_videos tables
    node        \* the Node process: whether it runs, and the requests whose
                \* handlers are suspended at an await or stream a file

vars == <<pc, endpoint, reqPath, reqQuery, reqRange, reqBody, reqHost, maxResults,
          sanitized, status, headers, body, fsOps, fs, config, session, db, node>>

----------------------------------------------------------------------------
(* Bounds of the model *)

\* number of "/"-separated segments of a client path
MaxSegs == 4
\* characters after "bytes=" in a Range header
MaxRangeLen == 4
\* size in bytes of the video file of the range scenarios
MaxFileSize == 2
\* largest maxResults argument tried on searchVideosRecursive
MaxCap == 2
\* largest config.maxRecursionDepth tried on searchVideosRecursive
MaxDepth == 2
\* number of requests whose handlers are in flight at the same time
MaxRequests == 2

----------------------------------------------------------------------------
(* Strings *)

sep == "/"
bslash == "\\"
dot == "."

RECURSIVE Join(_, _)
\* Array.prototype.join
Join(ss, d) ==
    IF ss = <<>> THEN <<>>
    ELSE IF Len(ss) = 1 THEN ss[1]
    ELSE ss[1] \o d \o Join(Tail(ss), d)

\* String.prototype.startsWith
startsWith(s, p) == Len(p) <= Len(s) /\ SubSeq(s, 1, Len(p)) = p

\* String.prototype.includes
includes(s, p) ==
    \E i \in 1..(Len(s) - Len(p) + 1) : SubSeq(s, i, i + Len(p) - 1) = p

RECURSIVE indexFrom(_, _, _)
\* the first position >= i of character c in s, 0 when there is none
indexFrom(s, c, i) ==
    IF i > Len(s) THEN 0
    ELSE IF s[i] = c THEN i
    ELSE indexFrom(s, c, i + 1)

\* String.prototype.indexOf for a single character, 0 when absent
indexOf(s, c) == indexFrom(s, c, 1)

RECURSIVE lastIndexFrom(_, _, _)
\* the last position <= i of character c in s, 0 when there is none
lastIndexFrom(s, c, i) ==
    IF i < 1 THEN 0
    ELSE IF s[i] = c THEN i
    ELSE lastIndexFrom(s, c, i - 1)

\* String.prototype.lastIndexOf for a single character, 0 when absent
lastIndexOf(s, c) == lastIndexFrom(s, c, Len(s))

RECURSIVE split(_, _)
\* String.prototype.split on a single character
split(s, c) ==
    LET i == indexOf(s, c)
    IN  IF i = 0 THEN <<s>>
        ELSE <<SubSeq(s, 1, i - 1)>> \o split(SubSeq(s, i + 1, Len(s)), c)

lowerChar(c) ==
    CASE c = "M" -> "m"
      [] c = "P" -> "p"
      [] c = "A" -> "a"
      [] OTHER -> c

\* String.prototype.toLowerCase
toLowerCase(s) == [i \in 1..Len(s) |-> lowerChar(s[i])]

----------------------------------------------------------------------------
(* Node's path module, POSIX flavour *)

RECURSIVE normalizeSegs(_, _, _)
\* path.js normalizeString, segment by segment: "" and "." are dropped, ".."
\* removes the last kept segment unless that is ".." itself (or none is left,
\* when it is kept only if allowAboveRoot)
normalizeSegs(segs, acc, allowAboveRoot) ==
    IF segs = <<>> THEN acc
    ELSE LET s == Head(segs)
             rest == Tail(segs)
         IN  IF s = <<>> \/ s = <<dot>> THEN normalizeSegs(rest, acc, allowAboveRoot)
             ELSE IF s = <<dot, dot>>
                  THEN IF acc # <<>> /\ acc[Len(acc)] # <<dot, dot>>
                       THEN normalizeSegs(rest, SubSeq(acc, 1, Len(acc) - 1), allowAboveRoot)
                       ELSE IF allowAboveRoot
                            THEN normalizeSegs(rest, Append(acc, s), allowAboveRoot)
                            ELSE normalizeSegs(rest, acc, allowAboveRoot)
                  ELSE normalizeSegs(rest, Append(acc, s), allowAboveRoot)

normalizeString(p, allowAboveRoot) ==
    Join(normalizeSegs(split(p, sep), <<>>, allowAboveRoot), <<sep>>)

isAbsolute(p) == Len(p) > 0 /\ p[1] = sep

\* path.normalize
normalize(p) ==
    IF Len(p) = 0 THEN <<dot>>
    ELSE LET abs == isAbsolute(p)
             trailing == p[Len(p)] = sep
             n == normalizeString(p, ~abs)
         IN  IF Len(n) = 0
             THEN IF abs THEN <<sep>>
                  ELSE IF trailing THEN <<dot, sep>> ELSE <<dot>>
             ELSE LET m == IF trailing THEN n \o <<sep>> ELSE n
                  IN  IF abs THEN <<sep>> \o m ELSE m

\* path.resolve(base, p) for an absolute base: the rightmost absolute argument
\* wins, empty arguments are skipped, the result has no trailing separator
resolve(base, p) ==
    LET joined == IF Len(p) = 0 THEN base \o <<sep>>
                  ELSE IF isAbsolute(p) THEN p \o <<sep>>
                  ELSE base \o <<sep>> \o p \o <<sep>>
    IN  <<sep>> \o normalizeString(joined, FALSE)

\* path.join(a, b): the non-empty arguments joined by "/" and normalized
join(a, b) ==
    LET parts == SelectSeq(<<a, b>>, LAMBDA x : Len(x) > 0)
    IN  IF parts = <<>> THEN <<dot>> ELSE normalize(Join(parts, <<sep>>))

\* path.dirname of a normalized path without trailing separator
dirname(p) ==
    LET i == lastIndexOf(p, sep)
    IN  IF i = 0 THEN <<dot>>
        ELSE IF i = 1 THEN <<sep>>
        ELSE SubSeq(p, 1, i - 1)

\* path.basename of a path without trailing separator
basename(p) == SubSeq(p, lastIndexOf(p, sep) + 1, Len(p))

\* path.extname: from the last "." of the base name, "" when there is none,
\* when it is the first character of the base name, or for ".."
extname(p) ==
    LET b == basename(p)
        i == lastIndexOf(b, dot)
    IN  IF i <= 1 \/ b = <<dot, dot>> THEN <<>> ELSE SubSeq(b, i, Len(b))

----------------------------------------------------------------------------
(* Configuration (config.json) *)

\* config.videoDirectory: an absolute directory, here "/r"
videoDirectory == <<sep, "r">>

\* path.resolve(config.videoDirectory)
baseDir == resolve(videoDirectory, <<>>)

Ext(cs) == <<dot>> \o cs

\* config.allowedExtensions
allowedExtensions == {Ext(<<"m", "p", "4">>), Ext(<<"a", "v", "i">>)}

\* the default of config.allowedImageExtensions
imageExts ==
    {Ext(<<"j", "p", "g">>), Ext(<<"j", "p", "e", "g">>), Ext(<<"p", "n", "g">>),
     Ext(<<"g", "i", "f">>), Ext(<<"w", "e", "b", "p">>), Ext(<<"b", "m", "p">>),
     Ext(<<"s", "v", "g">>)}

\* the default of config.maxRecursionDepth
maxRecursionDepth == 10

DefaultConfig == [maxRecursionDepth |-> maxRecursionDepth]

\* the default of searchVideosRecursive's maxResults parameter
DefaultMaxResults == 100

TraversalError == "Invalid path: directory traversal detected"

----------------------------------------------------------------------------
(* sanitizePath *)

RECURSIVE stripLeadingDotDot(_)
\* s.replace(/^(\.\.(\/|\\|$))+/, ''): every leading ".." that is followed by
\* "/", by a backslash or by the end of the string is removed
stripLeadingDotDot(s) ==
    IF Len(s) >= 2 /\ s[1] = dot /\ s[2] = dot
    THEN IF Len(s) = 2 THEN <<>>
         ELSE IF s[3] = sep \/ s[3] = bslash
              THEN stripLeadingDotDot(SubSeq(s, 4, Len(s)))
              ELSE s
    ELSE s

\* the outcome of a call of sanitizePath: a returned path or the thrown error
Returned(p) == [called |-> TRUE, ok |-> TRUE, path |-> p]
Thrown == [called |-> TRUE, ok |-> FALSE, path |-> <<>>]
NotCalled == [called |-> FALSE, ok |-> FALSE, path |-> <<>>]

\* the containment test without the separator: any string prefix passes
sanitizePathNoSep(userPath) ==
    IF userPath = <<>> THEN Returned(baseDir)
    ELSE LET normalized == stripLeadingDotDot(normalize(userPath))
             fullPath == resolve(baseDir, normalized)
         IN  IF ~startsWith(fullPath, baseDir) /\ fullPath # baseDir
             THEN Thrown
             ELSE Returned(fullPath)

sanitizePath(userPath) ==
    IF userPath = <<>> THEN Returned(baseDir)
    ELSE LET normalized == stripLeadingDotDot(normalize(userPath))
             fullPath == resolve(baseDir, normalized)
         IN  IF ~startsWith(fullPath, baseDir \o <<sep>>) /\ fullPath # baseDir
             THEN Thrown
             ELSE Returned(fullPath)

\* sanitizePath of the token-based server variant: path.join instead of
\* path.resolve, and a plain prefix test against config.videoDirectory
sanitizePathSimple(userPath) ==
    LET normalized == stripLeadingDotDot(normalize(userPath))
        fullPath == join(videoDirectory, normalized)
    IN  IF ~startsWith(fullPath, videoDirectory)
        THEN Thrown
        ELSE Returned(fullPath)

----------------------------------------------------------------------------
(* Media classification *)

isVideoFile(filename) == toLowerCase(extname(filename)) \in allowedExtensions

isImageFile(filename) == toLowerCase(extname(filename)) \in imageExts

\* isMediaFile accepts every file
isMediaFile(filename) == TRUE

getFileType(filename) ==
    LET ext == toLowerCase(extname(filename))
    IN  IF isVideoFile(filename) THEN "video"
        ELSE IF isImageFile(filename) THEN "image"
        ELSE IF ext \in {Ext(<<"p", "d", "f">>), Ext(<<"d", "o", "c">>),
                         Ext(<<"d", "o", "c", "x">>), Ext(<<"t", "x", "t">>),
                         Ext(<<"r", "t", "f">>), Ext(<<"o", "d", "t">>)}
             THEN "document"
        ELSE IF ext \in {Ext(<<"m", "p", "3">>), Ext(<<"w", "a", "v">>),
                         Ext(<<"f", "l", "a", "c">>), Ext(<<"a", "a", "c">>),
                         Ext(<<"o", "g", "g">>), Ext(<<"m", "4", "a">>),
                         Ext(<<"w", "m", "a">>)}
             THEN "audio"
        ELSE IF ext \in {Ext(<<"z", "i", "p">>), Ext(<<"r", "a", "r">>),
                         Ext(<<"7", "z">>), Ext(<<"t", "a", "r">>),
                         Ext(<<"g", "z">>), Ext(<<"b", "z", "2">>)}
             THEN "archive"
        ELSE IF ext \in {Ext(<<"j", "s">>), Ext(<<"p", "y">>),
                         Ext(<<"j", "a", "v", "a">>), Ext(<<"c", "p", "p">>),
                         Ext(<<"c">>), Ext(<<"h", "t", "m", "l">>),
                         Ext(<<"c", "s", "s">>), Ext(<<"j", "s", "o", "n">>),
                         Ext(<<"x", "m", "l">>)}
             THEN "code"
        ELSE "file"

\* the fixed Content-Type of the token-based server variant
getMimeTypeFixed(filename) == "video/mp4"

getMimeType(filename) ==
    LET ext == toLowerCase(extname(filename))
    IN  CASE ext = Ext(<<"m", "p", "4">>) -> "video/mp4"
          [] ext = Ext(<<"m", "4", "v">>) -> "video/mp4"
          [] ext = Ext(<<"w", "e", "b", "m">>) -> "video/webm"
          [] ext = Ext(<<"a", "v", "i">>) -> "video/x-msvideo"
          [] ext = Ext(<<"m", "k", "v">>) -> "video/x-matroska"
          [] ext = Ext(<<"m", "o", "v">>) -> "video/quicktime"
          [] ext = Ext(<<"w", "m", "v">>) -> "video/x-ms-wmv"
          [] ext = Ext(<<"f", "l", "v">>) -> "video/x-flv"
          [] ext = Ext(<<"m", "p", "e", "g">>) -> "video/mpeg"
          [] ext = Ext(<<"m", "p", "g">>) -> "video/mpeg"
          [] OTHER -> "video/mp4"

----------------------------------------------------------------------------
(* JavaScript numbers: integers and NaN; None marks a header never set *)

Int_(v) == [t |-> "int", v |-> v]
NaN == [t |-> "nan", v |-> 0]
None == [t |-> "none", v |-> 0]

isInt(n) == n.t = "int"

\* a + b and a - b, NaN when either operand is NaN
add(a, b) == IF isInt(a) /\ isInt(b) THEN Int_(a.v + b.v) ELSE NaN
sub(a, b) == IF isInt(a) /\ isInt(b) THEN Int_(a.v - b.v) ELSE NaN

digits == <<"0", "1", "2", "3", "4", "5", "6", "7", "8", "9">>
isDigit(c) == \E i \in 1..10 : digits[i] = c
digitVal(c) == (CHOOSE i \in 1..10 : digits[i] = c) - 1

RECURSIVE parseDigits(_, _)
parseDigits(s, acc) ==
    IF s # <<>> /\ isDigit(Head(s))
    THEN parseDigits(Tail(s), 10 * acc + digitVal(Head(s)))
    ELSE acc

\* parseInt(s, 10) of a string without sign or blanks: the leading digits,
\* NaN when the string does not start with a digit
parseInt(s) ==
    IF s # <<>> /\ isDigit(Head(s)) THEN Int_(parseDigits(s, 0)) ELSE NaN

\* s.replace(pattern, ''): the first occurrence of the pattern is removed
replaceFirst(s, pat) ==
    IF includes(s, pat)
    THEN LET i == CHOOSE k \in 1..(Len(s) - Len(pat) + 1) :
                      /\ SubSeq(s, k, k + Len(pat) - 1) = pat
                      /\ \A j \in 1..(k - 1) : SubSeq(s, j, j + Len(pat) - 1) # pat
         IN  SubSeq(s, 1, i - 1) \o SubSeq(s, i + Len(pat), Len(s))
    ELSE s

bytesEq == <<"b", "y", "t", "e", "s", "=">>

----------------------------------------------------------------------------
(* The filesystem *)

nA == <<"a", ".", "m", "p", "4">>
nB == <<"b", ".", "m", "p", "4">>
nC == <<"c", ".", "a", "v", "i">>
nN == <<"n", ".", "t", "x", "t">>
nP == <<"p", ".", "p", "n", "g">>
nM == <<"m">>
nH == <<".", "h">>
nE == <<"r", "E">>

\* the absolute path of the given segments
Abs(segs) == <<sep>> \o Join(segs, <<sep>>)

\* an entry: its kind, its size and modification time as stat reports them,
\* and whether reading it fails (readdir of the directory, stat of the file)
Dir == [kind |-> "dir", size |-> 0, mtime |-> 0, err |-> FALSE]
File(n) == [kind |-> "file", size |-> n, mtime |-> 1, err |-> FALSE]
\* the entry modified at time t
Touched(e, t) == [e EXCEPT !.mtime = t]
\* the entry when the process may not read it
Failing(e) == [e EXCEPT !.err = TRUE]

nD == <<"d">>

\* the names entries may have, in the order readdir lists them
Names == <<nA, nB, nC, nH, nM, nN, nP, nD, <<"r">>, nE>>

\* path.join(dir, name) of an absolute directory and a plain name
child(dir, name) == IF dir = <<sep>> THEN dir \o name ELSE dir \o <<sep>> \o name

\* a library with two videos of the given size in the root and one in a folder,
\* a text file, an image and a hidden folder; outside the library, a video and
\* two directories, one of them named like the root plus a suffix
LibraryTree(n) ==
    (Abs(<<>>) :> Dir) @@ (Abs(<< <<"r">> >>) :> Dir)
    @@ (Abs(<< <<"r">>, nA >>) :> File(n))
    @@ (Abs(<< <<"r">>, nC >>) :> File(n))
    @@ (Abs(<< <<"r">>, nN >>) :> Touched(File(1), 2))
    @@ (Abs(<< <<"r">>, nP >>) :> Touched(File(1), 3))
    @@ (Abs(<< <<"r">>, nH >>) :> Dir)
    @@ (Abs(<< <<"r">>, nH, nA >>) :> File(1))
    @@ (Abs(<< <<"r">>, nM >>) :> Dir)
    @@ (Abs(<< <<"r">>, nM, nA >>) :> File(n))
    @@ (Abs(<< nA >>) :> File(1))
    @@ (Abs(<< nM >>) :> Dir)
    @@ (Abs(<< nM, nA >>) :> File(1))
    @@ (Abs(<< nE >>) :> Dir)
    @@ (Abs(<< nE, nA >>) :> File(1))

exists(fsys, p) == p \in DOMAIN fsys
isDirectory(fsys, p) == exists(fsys, p) /\ fsys[p].kind = "dir"
isFile(fsys, p) == exists(fsys, p) /\ fsys[p].kind = "file"

\* fs.promises.readdir: the entries directly inside dir
readdir(fsys, dir) ==
    LET present == SelectSeq(Names, LAMBDA n : exists(fsys, child(dir, n)))
    IN  [i \in 1..Len(present) |-> child(dir, present[i])]

\* the names of an absolute normalized path
segsOf(p) == IF p = <<sep>> THEN <<>> ELSE split(Tail(p), sep)

RECURSIVE commonLen(_, _)
\* the number of leading names two paths share
commonLen(a, b) ==
    IF a # <<>> /\ b # <<>> /\ Head(a) = Head(b)
    THEN 1 + commonLen(Tail(a), Tail(b))
    ELSE 0

\* path.relative(config.videoDirectory, p) of an absolute normalized path:
\* one ".." for every name of the video directory the paths do not share,
\* then the remaining names of p
relative(p) ==
    IF p = videoDirectory THEN <<>>
    ELSE IF startsWith(p, videoDirectory \o <<sep>>)
    THEN SubSeq(p, Len(videoDirectory) + 2, Len(p))
    ELSE LET from == segsOf(videoDirectory)
             to == segsOf(p)
             k == commonLen(from, to)
         IN  Join([i \in 1..(Len(from) - k) |-> <<dot, dot>>]
                  \o SubSeq(to, k + 1, Len(to)), <<sep>>)

Op(name, p) == [op |-> name, path |-> p]

----------------------------------------------------------------------------
(* Responses *)

NoHeaders ==
    [contentLength |-> None, rangeStart |-> None, rangeEnd |-> None,
     rangeTotal |-> None, acceptRanges |-> "", contentType |-> "",
     contentDisposition |-> <<>>]

JsonHeaders == [NoHeaders EXCEPT !.contentType = "application/json"]

NoBody ==
    [kind |-> "none", error |-> "", folders |-> <<>>, files |-> <<>>,
     file |-> <<>>, offset |-> 0, bytes |-> 0, done |-> <<>>, failed |-> <<>>,
     albums |-> {}]

ErrorBody(msg) == [NoBody EXCEPT !.kind = "error", !.error = msg]
ListingBody(folders, files) ==
    [NoBody EXCEPT !.kind = "listing", !.folders = folders, !.files = files]
ResultsBody(results) == [NoBody EXCEPT !.kind = "results", !.files = results]
\* a file piped into the response from the given offset: bytes is the number
\* of bytes the read stream delivers
StreamBody(file, offset, bytes) ==
    [NoBody EXCEPT !.kind = "stream", !.file = file, !.offset = offset,
                   !.bytes = bytes]

Resp(san, st, hd, bd, ops) ==
    [sanitized |-> san, status |-> st, headers |-> hd, body |-> bd, fsOps |-> ops]

\* res.status(st).json({ error: msg })
JsonError(san, st, msg, ops) == Resp(san, st, JsonHeaders, ErrorBody(msg), ops)

Max(a, b) == IF a >= b THEN a ELSE b
Min(a, b) == IF a <= b THEN a ELSE b

\* what a read stream over positions first..last delivers of a file
streamBytes(fsys, p, first, last) ==
    IF isFile(fsys, p) THEN Max(0, Min(last, fsys[p].size - 1) - first + 1) ELSE 0

----------------------------------------------------------------------------
(* Directory listing and recursive search *)

FolderEntry(p) ==
    [name |-> basename(p), path |-> relative(p), type |-> "folder", size |-> 0,
     modified |-> 0, folder |-> <<>>]
FileEntry(fsys, p) ==
    [name |-> basename(p), path |-> relative(p), type |-> getFileType(basename(p)),
     size |-> fsys[p].size, modified |-> fsys[p].mtime, folder |-> <<>>]

isHidden(p) == startsWith(basename(p), <<dot>>)

\* readDirectoryRecursive of the token-based server variant: video files only,
\* without a type
readDirectoryVideosOnly(fsys, dirPath) ==
    LET items == SelectSeq(readdir(fsys, dirPath), LAMBDA p : ~isHidden(p))
        dirs == SelectSeq(items, LAMBDA p : isDirectory(fsys, p))
        files == SelectSeq(items, LAMBDA p : isFile(fsys, p) /\ isVideoFile(basename(p)))
    IN  [folders |-> [i \in 1..Len(dirs) |-> FolderEntry(dirs[i])],
         files |-> [i \in 1..Len(files) |->
                        [FileEntry(fsys, files[i]) EXCEPT !.type = ""]],
         ops |-> <<Op("readdir", dirPath)>>
                 \o [i \in 1..Len(files) |-> Op("stat", files[i])]]

\* readDirectoryRecursive(dirPath) of an existing directory, at depth 0
readDirectoryRecursive(fsys, dirPath) ==
    LET items == SelectSeq(readdir(fsys, dirPath), LAMBDA p : ~isHidden(p))
        dirs == SelectSeq(items, LAMBDA p : isDirectory(fsys, p))
        files == SelectSeq(items, LAMBDA p : isFile(fsys, p) /\ isMediaFile(basename(p)))
    IN  [folders |-> [i \in 1..Len(dirs) |-> FolderEntry(dirs[i])],
         files |-> [i \in 1..Len(files) |-> FileEntry(fsys, files[i])],
         ops |-> <<Op("readdir", dirPath)>>
                 \o [i \in 1..Len(files) |-> Op("stat", files[i])]]

\* the folder field of a search result: path.dirname(relativePath) || 'Home'
resultFolder(rel) == IF dirname(rel) = <<>> THEN <<"H", "o", "m", "e">> ELSE dirname(rel)

SearchResult(fsys, p) ==
    [FileEntry(fsys, p) EXCEPT !.folder = resultFolder(relative(p))]

\* a depth limit that lets one more level through
exceedsDepthLax(depth) == depth > config.maxRecursionDepth + 1

\* depth > config.maxRecursionDepth
exceedsDepth(depth) == depth > config.maxRecursionDepth

RECURSIVE searchDir(_, _, _, _, _, _)
RECURSIVE searchItems(_, _, _, _, _, _)

\* the for loop of searchDir over the entries of one directory; acc holds the
\* shared results array and the filesystem calls made so far
searchItems(fsys, items, depth, acc, lowerQuery, maxRes) ==
    IF items = <<>> THEN acc
    ELSE LET p == Head(items)
             rest == Tail(items)
         IN  IF isHidden(p)
             THEN searchItems(fsys, rest, depth, acc, lowerQuery, maxRes)
             ELSE IF isDirectory(fsys, p)
             THEN searchItems(fsys, rest, depth,
                              searchDir(fsys, p, depth + 1, acc, lowerQuery, maxRes),
                              lowerQuery, maxRes)
             ELSE IF isFile(fsys, p) /\ isMediaFile(basename(p))
                     /\ includes(toLowerCase(basename(p)), lowerQuery)
             THEN IF fsys[p].err
                  \* stat throws: the catch around the loop ends the loop
                  THEN [acc EXCEPT !.ops = Append(acc.ops, Op("stat", p))]
                  ELSE searchItems(fsys, rest, depth,
                                   [results |-> Append(acc.results, SearchResult(fsys, p)),
                                    ops |-> Append(acc.ops, Op("stat", p))],
                                   lowerQuery, maxRes)
             ELSE searchItems(fsys, rest, depth, acc, lowerQuery, maxRes)

\* searchDir: nothing is read beyond the depth limit or once maxResults
\* results are collected; a directory that cannot be read is skipped
searchDir(fsys, dirPath, depth, acc, lowerQuery, maxRes) ==
    IF exceedsDepth(depth) \/ Len(acc.results) >= maxRes THEN acc
    ELSE LET read == [acc EXCEPT !.ops = Append(acc.ops, Op("readdir", dirPath))]
         IN  IF ~isDirectory(fsys, dirPath) \/ fsys[dirPath].err THEN read
             ELSE searchItems(fsys, readdir(fsys, dirPath), depth, read,
                              lowerQuery, maxRes)

searchVideosRecursive(fsys, startPath, query, maxRes) ==
    searchDir(fsys, startPath, 0, [results |-> <<>>, ops |-> <<>>],
              toLowerCase(query), maxRes)

----------------------------------------------------------------------------
(* Request handlers: each yields the response and the filesystem calls made *)

\* GET /api/browse
apiBrowse(fsys, p) ==
    LET san == sanitizePath(p)
        fullPath == san.path
        statOp == <<Op("stat", fullPath)>>
    IN  IF ~san.ok THEN JsonError(san, 500, TraversalError, <<>>)
        ELSE IF ~exists(fsys, fullPath) THEN JsonError(san, 500, "ENOENT", statOp)
        ELSE IF ~isDirectory(fsys, fullPath)
             THEN JsonError(san, 400, "Path is not a directory", statOp)
        ELSE LET contents == readDirectoryRecursive(fsys, fullPath)
             IN  Resp(san, 200, JsonHeaders,
                      ListingBody(contents.folders, contents.files),
                      statOp \o contents.ops)

\* a search handler that resolves the path before it looks at the query
apiSearchResolveFirst(fsys, q, p) ==
    LET san == sanitizePath(p)
    IN  IF ~san.ok THEN JsonError(san, 500, TraversalError, <<>>)
        ELSE IF Len(q) < 2 THEN Resp(san, 200, JsonHeaders, ResultsBody(<<>>), <<>>)
        ELSE LET found == searchVideosRecursive(fsys, san.path, q, DefaultMaxResults)
             IN  Resp(san, 200, JsonHeaders, ResultsBody(found.results), found.ops)

\* GET /api/search
apiSearch(fsys, q, p) ==
    IF Len(q) < 2 THEN Resp(NotCalled, 200, JsonHeaders, ResultsBody(<<>>), <<>>)
    ELSE LET san == sanitizePath(p)
         IN  IF ~san.ok THEN JsonError(san, 500, TraversalError, <<>>)
             ELSE LET found == searchVideosRecursive(fsys, san.path, q, DefaultMaxResults)
                  IN  Resp(san, 200, JsonHeaders, ResultsBody(found.results), found.ops)

\* GET /api/image
apiImage(fsys, p) ==
    IF p = <<>> THEN JsonError(NotCalled, 400, "Path parameter required", <<>>)
    ELSE LET san == sanitizePath(p)
             fullPath == san.path
             existsOp == <<Op("existsSync", fullPath)>>
         IN  IF ~san.ok THEN JsonError(san, 500, TraversalError, <<>>)
             ELSE IF ~isImageFile(fullPath)
                  THEN JsonError(san, 400, "Not an image file", <<>>)
             ELSE IF ~exists(fsys, fullPath)
                  THEN JsonError(san, 404, "Image not found", existsOp)
             ELSE IF ~isFile(fsys, fullPath)
                  \* res.sendFile of a directory passes on to the 404 handler
                  THEN JsonError(san, 404, "EISDIR", existsOp \o <<Op("sendFile", fullPath)>>)
             ELSE Resp(san, 200,
                       [NoHeaders EXCEPT !.contentLength = Int_(fsys[fullPath].size)],
                       StreamBody(fullPath, 0, fsys[fullPath].size),
                       existsOp \o <<Op("sendFile", fullPath)>>)

\* a createReadStream that also refuses the one-byte range start = end
validStreamRangeStrict(start, end) ==
    /\ isInt(start) /\ start.v >= 0
    /\ isInt(end) /\ end.v >= 0
    /\ start.v < end.v

\* fs.createReadStream accepts { start, end } only when both are integers
\* >= 0 and start <= end; otherwise it throws before opening anything
validStreamRange(start, end) ==
    /\ isInt(start) /\ start.v >= 0
    /\ isInt(end) /\ end.v >= 0
    /\ start.v <= end.v

\* a video handler that streams whatever stat finds, without looking at
\* its kind or its extension
apiVideoUnclassified(fsys, p, range) ==
    IF p = <<>> THEN JsonError(NotCalled, 400, "Path parameter required", <<>>)
    ELSE LET san == sanitizePath(p)
             fullPath == san.path
             statOp == <<Op("stat", fullPath)>>
         IN  IF ~san.ok THEN JsonError(san, 500, TraversalError, <<>>)
             ELSE IF ~exists(fsys, fullPath) THEN JsonError(san, 500, "ENOENT", statOp)
             ELSE Resp(san, 200,
                       [NoHeaders EXCEPT
                           !.contentLength = Int_(fsys[fullPath].size),
                           !.contentType = getMimeType(fullPath)],
                       StreamBody(fullPath, 0,
                                  streamBytes(fsys, fullPath, 0, fsys[fullPath].size - 1)),
                       statOp \o <<Op("createReadStream", fullPath)>>)

\* GET /api/video
apiVideo(fsys, p, range) ==
    IF p = <<>> THEN JsonError(NotCalled, 400, "Path parameter required", <<>>)
    ELSE LET san == sanitizePath(p)
             fullPath == san.path
             statOp == <<Op("stat", fullPath)>>
         IN  IF ~san.ok THEN JsonError(san, 500, TraversalError, <<>>)
             ELSE IF ~exists(fsys, fullPath) THEN JsonError(san, 500, "ENOENT", statOp)
             ELSE IF ~isFile(fsys, fullPath) \/ ~isVideoFile(fullPath)
                  THEN JsonError(san, 400, "Invalid video file", statOp)
             ELSE LET fileSize == fsys[fullPath].size
                      openOp == <<Op("createReadStream", fullPath)>>
                  IN  IF range # <<>>
                      THEN LET parts == split(replaceFirst(range, bytesEq), "-")
                               start == parseInt(parts[1])
                               end == IF Len(parts) >= 2 /\ parts[2] # <<>>
                                      THEN parseInt(parts[2])
                                      ELSE Int_(fileSize - 1)
                               chunkSize == add(sub(end, start), Int_(1))
                           IN  IF ~validStreamRange(start, end)
                               THEN JsonError(san, 500, "ERR_OUT_OF_RANGE", statOp)
                               ELSE Resp(san, 206,
                                         [NoHeaders EXCEPT
                                             !.rangeStart = start,
                                             !.rangeEnd = end,
                                             !.rangeTotal = Int_(fileSize),
                                             !.acceptRanges = "bytes",
                                             !.contentLength = chunkSize,
                                             !.contentType = getMimeType(fullPath)],
                                         StreamBody(fullPath, start.v,
                                                    streamBytes(fsys, fullPath, start.v, end.v)),
                                         statOp \o openOp)
                      ELSE Resp(san, 200,
                                [NoHeaders EXCEPT
                                    !.contentLength = Int_(fileSize),
                                    !.contentType = getMimeType(fullPath)],
                                StreamBody(fullPath, 0,
                                           streamBytes(fsys, fullPath, 0, fileSize - 1)),
                                statOp \o openOp)

\* a download handler with the checks of the video handler
apiDownloadVideosOnly(fsys, p) == apiVideo(fsys, p, <<>>)

\* GET /api/download
apiDownload(fsys, p) ==
    IF p = <<>> THEN JsonError(NotCalled, 400, "Path parameter required", <<>>)
    ELSE LET san == sanitizePath(p)
             fullPath == san.path
             statOp == <<Op("stat", fullPath)>>
         IN  IF ~san.ok THEN JsonError(san, 500, TraversalError, <<>>)
             ELSE IF ~exists(fsys, fullPath) THEN JsonError(san, 500, "ENOENT", statOp)
             ELSE IF ~isFile(fsys, fullPath) THEN JsonError(san, 400, "Invalid file", statOp)
             ELSE Resp(san, 200,
                       [NoHeaders EXCEPT
                           !.contentDisposition = basename(fullPath),
                           !.contentType = "application/octet-stream",
                           !.contentLength = Int_(fsys[fullPath].size)],
                       StreamBody(fullPath, 0,
                                  streamBytes(fsys, fullPath, 0, fsys[fullPath].size - 1)),
                       statOp \o <<Op("createReadStream", fullPath)>>)

----------------------------------------------------------------------------
(* The session and the authentication middleware *)

\* config.password
password == <<"p", "w">>

\* the network isolation middleware, which every request passes first
allowedHosts == {"127.0.0.1", "localhost"}

\* host ? host.split(':')[0] : ''
hostname(host) == IF host = <<>> THEN "" ELSE host[1]

\* res.status(403).json({ error: 'Access denied', ... })
Forbidden == JsonError(NotCalled, 403, "Access denied", <<>>)

\* the Host header of the requests of a local client
LocalHost == <<"localhost", "3000">>

LoggedOut == [authenticated |-> FALSE]
LoggedIn == [authenticated |-> TRUE]

\* res.status(401).json({ error: 'Unauthorized' })
Unauthorized == JsonError(NotCalled, 401, "Unauthorized", <<>>)

\* res.json({ success: true, ... })
SuccessBody == [NoBody EXCEPT !.kind = "success"]
Success(san, ops) == Resp(san, 200, JsonHeaders, SuccessBody, ops)

\* an authentication check that is made only after the handler has run
requireAuthLate(sess, out) ==
    IF ~sess.authenticated
    THEN [Unauthorized EXCEPT !.sanitized = out.sanitized, !.fsOps = out.fsOps]
    ELSE out

\* requireAuth in front of a handler: without an authenticated session the
\* handler, whose outcome is out, is not run
requireAuth(sess, out) == IF ~sess.authenticated THEN Unauthorized ELSE out

\* POST /api/login
apiLogin(pw) ==
    IF pw = password
    THEN Success(NotCalled, <<>>) @@ [session |-> LoggedIn]
    ELSE JsonError(NotCalled, 401, "Invalid password", <<>>)

\* a logout that answers success and leaves the session as it is
apiLogoutKeepsSession == Success(NotCalled, <<>>)

\* POST /api/logout: req.session.destroy
apiLogout == Success(NotCalled, <<>>) @@ [session |-> LoggedOut]

----------------------------------------------------------------------------
(* Handlers that change the library *)

\* p is d or lies below d
under(p, d) == p = d \/ startsWith(p, d \o <<sep>>)

\* fs.promises.unlink
unlink(fsys, p) == [q \in DOMAIN fsys \ {p} |-> fsys[q]]

\* fs.promises.rename of an existing entry to a free path: the entry and
\* everything below it move
rename(fsys, old, new) ==
    LET gone == {q \in DOMAIN fsys : under(q, old)}
        stay == DOMAIN fsys \ gone
        target(q) == new \o SubSeq(q, Len(old) + 1, Len(q))
    IN  [q \in stay \cup {target(g) : g \in gone} |->
            IF q \in stay THEN fsys[q]
            ELSE fsys[CHOOSE g \in gone : target(g) = q]]

\* fs.promises.mkdir and fs.promises.writeFile of a path whose parent exists
create(fsys, p, entry) == (p :> entry) @@ fsys

ReportBody(done, failed) ==
    [NoBody EXCEPT !.kind = "report", !.done = done, !.failed = failed]
Failure(p, msg) == [path |-> p, error |-> msg]

\* a const of a handler: the value is computed once, where it is declared,
\* and Do reads it
With(v, Do(_)) == CHOOSE r \in {Do(x) : x \in {v}} : TRUE

RECURSIVE deleteEachUntilFailure(_, _)
\* a loop over pathsToDelete that gives up at the first path that fails
deleteEachUntilFailure(paths, acc) ==
    IF paths = <<>> THEN acc
    ELSE With(<<sanitizePath(Head(paths)), acc>>, LAMBDA c :
         LET filePath == Head(paths)
             san == c[1]
             was == c[2]
             fullPath == san.path
         IN  IF san.ok /\ isFile(was.fs, fullPath) /\ isVideoFile(fullPath)
             THEN deleteEachUntilFailure(Tail(paths),
                     [was EXCEPT !.san = san,
                                 !.done = Append(@, filePath),
                                 !.ops = @ \o <<Op("stat", fullPath), Op("unlink", fullPath)>>,
                                 !.fs = unlink(@, fullPath)])
             ELSE [was EXCEPT !.san = san,
                              !.failed = Append(@, Failure(filePath, "Invalid video file"))])

RECURSIVE deleteEach(_, _)
\* the loop of DELETE /api/video over pathsToDelete; acc holds the filesystem,
\* the deleted and failed lists, the calls made and the last sanitizePath
deleteEach(paths, acc) ==
    IF paths = <<>> THEN acc
    ELSE With(<<sanitizePath(Head(paths)), acc>>, LAMBDA c :
         LET filePath == Head(paths)
             san == c[1]
             was == c[2]
             fullPath == san.path
             failed(msg, ops) ==
                 [was EXCEPT !.san = san,
                             !.failed = Append(@, Failure(filePath, msg)),
                             !.ops = @ \o ops]
         IN  deleteEach(Tail(paths),
                IF ~san.ok THEN failed(TraversalError, <<>>)
                ELSE IF ~exists(was.fs, fullPath)
                THEN failed("ENOENT", <<Op("stat", fullPath)>>)
                ELSE IF ~isFile(was.fs, fullPath) \/ ~isVideoFile(fullPath)
                THEN failed("Invalid video file", <<Op("stat", fullPath)>>)
                ELSE [was EXCEPT !.san = san,
                                 !.done = Append(@, filePath),
                                 !.ops = @ \o <<Op("stat", fullPath), Op("unlink", fullPath)>>,
                                 !.fs = unlink(@, fullPath)]))

\* multiplePaths || (singlePath ? [singlePath] : [])
pathsToDelete(b) ==
    IF b.multiple THEN b.paths ELSE IF b.path # <<>> THEN <<b.path>> ELSE <<>>

\* DELETE /api/video
apiDelete(fsys, b) ==
    IF pathsToDelete(b) = <<>>
    THEN JsonError(NotCalled, 400, "No files specified for deletion", <<>>)
    ELSE With(deleteEach(pathsToDelete(b),
                         [fs |-> fsys, san |-> NotCalled, done |-> <<>>,
                          failed |-> <<>>, ops |-> <<>>]), LAMBDA r :
              Resp(r.san, 200, JsonHeaders, ReportBody(r.done, r.failed), r.ops)
              @@ [fs |-> r.fs])

\* PATCH /api/video/rename
apiRename(fsys, dbase, b) ==
    IF b.path = <<>> \/ b.newName = <<>>
    THEN JsonError(NotCalled, 400, "Path and new name required", <<>>)
    ELSE IF includes(b.newName, <<sep>>) \/ includes(b.newName, <<bslash>>)
    THEN JsonError(NotCalled, 400, "Invalid filename", <<>>)
    ELSE IF ~isVideoFile(b.newName)
    THEN JsonError(NotCalled, 400, "New name must have a valid video extension", <<>>)
    ELSE With(sanitizePath(b.path), LAMBDA san :
         With(join(dirname(san.path), b.newName), LAMBDA newFullPath :
         With(relative(newFullPath), LAMBDA newRelativePath :
         LET oldFullPath == san.path
             existsOp == <<Op("existsSync", newFullPath)>>
             renameOp == <<Op("rename", oldFullPath), Op("rename", newFullPath)>>
             updateOp == <<Op("UPDATE album_videos", newRelativePath)>>
             \* UNIQUE(album_id, video_path): an album holds both paths
             clash == \E r1, r2 \in dbase.videos :
                         /\ r1.video_path = b.path
                         /\ r2.video_path = newRelativePath
                         /\ r1.album_id = r2.album_id
                         /\ r1 # r2
             updated == {IF r.video_path = b.path
                         THEN [r EXCEPT !.video_path = newRelativePath]
                         ELSE r : r \in dbase.videos}
         IN  IF ~san.ok THEN JsonError(san, 500, TraversalError, <<>>)
             ELSE IF exists(fsys, newFullPath)
             THEN JsonError(san, 400, "A file with that name already exists", existsOp)
             ELSE IF ~exists(fsys, oldFullPath)
             THEN JsonError(san, 500, "ENOENT", existsOp \o renameOp)
             ELSE IF clash
             THEN JsonError(san, 500, "UNIQUE constraint failed",
                            existsOp \o renameOp \o updateOp)
                  @@ [fs |-> rename(fsys, oldFullPath, newFullPath)]
             ELSE Resp(san, 200, JsonHeaders,
                       [SuccessBody EXCEPT !.file = newRelativePath],
                       existsOp \o renameOp \o updateOp)
                  @@ [fs |-> rename(fsys, oldFullPath, newFullPath),
                      db |-> [dbase EXCEPT !.videos = updated]])))

\* POST /api/folder
apiFolder(fsys, b) ==
    IF b.name = <<>> THEN JsonError(NotCalled, 400, "Folder name required", <<>>)
    ELSE IF \/ includes(b.name, <<sep>>) \/ includes(b.name, <<bslash>>)
            \/ includes(b.name, <<dot, dot>>)
    THEN JsonError(NotCalled, 400, "Invalid folder name", <<>>)
    ELSE With(IF b.path # <<>> THEN sanitizePath(b.path) ELSE NotCalled, LAMBDA san :
         With(join(IF b.path # <<>> THEN san.path ELSE videoDirectory, b.name),
              LAMBDA newFolderPath :
         LET basePath == IF b.path # <<>> THEN san.path ELSE videoDirectory
             existsOp == <<Op("existsSync", newFolderPath)>>
             mkdirOp == <<Op("mkdir", newFolderPath)>>
         IN  IF b.path # <<>> /\ ~san.ok THEN JsonError(san, 500, TraversalError, <<>>)
             ELSE IF exists(fsys, newFolderPath)
             THEN JsonError(san, 400, "Folder already exists", existsOp)
             ELSE IF ~isDirectory(fsys, basePath)
             THEN JsonError(san, 500, "ENOENT", existsOp \o mkdirOp)
             ELSE Resp(san, 200, JsonHeaders,
                       [SuccessBody EXCEPT !.file = relative(newFolderPath)],
                       existsOp \o mkdirOp)
                  @@ [fs |-> create(fsys, newFolderPath, Dir)]))

RECURSIVE writeEach(_, _, _)
\* the loop of POST /api/upload over the files of the form
writeEach(files, uploadDir, acc) ==
    IF files = <<>> THEN acc
    ELSE With(<<join(uploadDir, Head(files).filename), acc>>, LAMBDA c :
         LET file == Head(files)
             filePath == c[1]
             was == c[2]
             writeOp == <<Op("writeFile", filePath)>>
         IN  writeEach(Tail(files), uploadDir,
                IF isDirectory(was.fs, dirname(filePath)) /\ ~isDirectory(was.fs, filePath)
                THEN [was EXCEPT !.done = Append(@, file.filename),
                                 !.ops = @ \o writeOp,
                                 !.fs = create(@, filePath, File(file.size))]
                ELSE [was EXCEPT !.failed = Append(@, Failure(file.filename, "ENOENT")),
                                 !.ops = @ \o writeOp]))

\* POST /api/upload; the body is given as parseMultipartData returns it:
\* the field path and the files with their filename and data
apiUpload(fsys, b) ==
    IF ~b.multipart THEN JsonError(NotCalled, 400, "Must be multipart/form-data", <<>>)
    ELSE IF b.files = <<>> THEN JsonError(NotCalled, 400, "No files provided", <<>>)
    ELSE With(IF b.path # <<>> THEN sanitizePath(b.path) ELSE NotCalled, LAMBDA san :
         LET uploadDir == IF b.path # <<>> THEN san.path ELSE videoDirectory
             existsOp == <<Op("existsSync", uploadDir)>>
         IN  IF b.path # <<>> /\ ~san.ok THEN JsonError(san, 500, TraversalError, <<>>)
             ELSE IF ~exists(fsys, uploadDir)
             THEN JsonError(san, 400, "Upload directory does not exist", existsOp)
             ELSE With(writeEach(b.files, uploadDir,
                                 [fs |-> fsys, done |-> <<>>, failed |-> <<>>,
                                  ops |-> existsOp]), LAMBDA r :
                       Resp(san, 200, JsonHeaders, ReportBody(r.done, r.failed), r.ops)
                       @@ [fs |-> r.fs]))

----------------------------------------------------------------------------
(* Albums *)

\* the tables after initializeDatabase: the rows of albums and of
\* album_videos, and the next AUTOINCREMENT id of albums
EmptyDb == [albums |-> {}, videos |-> {}, nextId |-> 1]

albumRows(dbase, id) == {a \in dbase.albums : a.id = id}
albumVideos(dbase, id) == {r \in dbase.videos : r.album_id = id}

\* the rows of a SELECT without ORDER BY, in the order the engine picks
rowsOf(S) ==
    CHOOSE f \in [1..Cardinality(S) -> S] : {f[i] : i \in 1..Cardinality(S)} = S

RECURSIVE trim(_)
\* String.prototype.trim for blanks
trim(s) ==
    IF s # <<>> /\ Head(s) = " " THEN trim(Tail(s))
    ELSE IF s # <<>> /\ s[Len(s)] = " " THEN trim(SubSeq(s, 1, Len(s) - 1))
    ELSE s

\* GET /api/albums
apiAlbums(dbase) ==
    Resp(NotCalled, 200, JsonHeaders,
         [NoBody EXCEPT !.kind = "albums",
                        !.albums = {[id |-> a.id, name |-> a.name,
                                     video_count |-> Cardinality(albumVideos(dbase, a.id))]
                                    : a \in dbase.albums}],
         <<Op("SELECT albums", <<>>)>>)

\* GET /api/albums/:id: the videos of the album that sanitizePath accepts and
\* stat finds
apiAlbum(fsys, dbase, id) ==
    IF albumRows(dbase, id) = {}
    THEN JsonError(NotCalled, 404, "Album not found", <<Op("SELECT albums", <<>>)>>)
    ELSE LET rows == rowsOf(albumVideos(dbase, id))
             found == SelectSeq(rows, LAMBDA r :
                          sanitizePath(r.video_path).ok
                          /\ exists(fsys, sanitizePath(r.video_path).path))
             entry(r) ==
                 LET p == sanitizePath(r.video_path).path
                 IN  [name |-> basename(r.video_path), path |-> r.video_path,
                      type |-> "", size |-> fsys[p].size, modified |-> fsys[p].mtime,
                      folder |-> resultFolder(r.video_path)]
         IN  Resp(IF rows = <<>> THEN NotCalled ELSE sanitizePath(rows[Len(rows)].video_path),
                  200, JsonHeaders,
                  [NoBody EXCEPT !.kind = "album",
                                 !.albums = albumRows(dbase, id),
                                 !.files = [i \in 1..Len(found) |-> entry(found[i])]],
                  <<Op("SELECT albums", <<>>), Op("SELECT album_videos", <<>>)>>
                  \o [i \in 1..Len(found) |-> Op("stat", sanitizePath(found[i].video_path).path)])

\* POST /api/albums
apiAlbumCreate(dbase, b) ==
    IF trim(b.name) = <<>> THEN JsonError(NotCalled, 400, "Album name required", <<>>)
    ELSE IF \E a \in dbase.albums : a.name = trim(b.name)
    THEN JsonError(NotCalled, 400, "Album name already exists",
                   <<Op("INSERT albums", <<>>)>>)
    ELSE Success(NotCalled, <<Op("INSERT albums", <<>>), Op("SELECT albums", <<>>)>>)
         @@ [db |-> [dbase EXCEPT
                        !.albums = @ \cup {[id |-> dbase.nextId, name |-> trim(b.name)]},
                        !.nextId = @ + 1]]

\* PATCH /api/albums/:id with a name
apiAlbumUpdate(dbase, id, b) ==
    IF \E a \in dbase.albums : a.name = trim(b.name) /\ a.id # id
          /\ albumRows(dbase, id) # {}
    THEN JsonError(NotCalled, 500, "UNIQUE constraint failed",
                   <<Op("UPDATE albums", <<>>)>>)
    ELSE Success(NotCalled, <<Op("UPDATE albums", <<>>), Op("SELECT albums", <<>>)>>)
         @@ [db |-> [dbase EXCEPT
                        !.albums = {IF a.id = id THEN [a EXCEPT !.name = trim(b.name)]
                                    ELSE a : a \in @}]]

\* DELETE /api/albums/:id, with ON DELETE CASCADE on album_videos
apiAlbumDelete(dbase, id) ==
    Success(NotCalled, <<Op("DELETE albums", <<>>)>>)
    @@ [db |-> [dbase EXCEPT
                   !.albums = @ \ albumRows(dbase, id),
                   !.videos = {r \in @ : r.album_id # id}]]

\* POST /api/albums/:id/videos
apiAlbumAddVideo(fsys, dbase, id, b) ==
    IF b.video_path = <<>> THEN JsonError(NotCalled, 400, "Video path required", <<>>)
    ELSE With(sanitizePath(b.video_path), LAMBDA san :
         LET existsOp == <<Op("existsSync", san.path)>>
             insertOp == <<Op("INSERT album_videos", b.video_path)>>
             row == [album_id |-> id, video_path |-> b.video_path]
         IN  IF ~san.ok THEN JsonError(san, 500, TraversalError, <<>>)
             ELSE IF ~exists(fsys, san.path)
             THEN JsonError(san, 404, "Video not found", existsOp)
             ELSE IF row \in dbase.videos
             THEN JsonError(san, 400, "Video already in album", existsOp \o insertOp)
             ELSE IF albumRows(dbase, id) = {}
             THEN JsonError(san, 500, "FOREIGN KEY constraint failed",
                            existsOp \o insertOp)
             ELSE Success(san, existsOp \o insertOp)
                  @@ [db |-> [dbase EXCEPT !.videos = @ \cup {row}]])

\* DELETE /api/albums/:id/videos
apiAlbumRemoveVideo(dbase, id, b) ==
    Success(NotCalled, <<Op("DELETE album_videos", b.video_path)>>)
    @@ [db |-> [dbase EXCEPT
                   !.videos = @ \ {[album_id |-> id, video_path |-> b.video_path]}]]

----------------------------------------------------------------------------
(* Request inputs *)

\* the segments client paths are built from: empty (a leading, doubled or
\* trailing "/"), ".", "..", two names starting with ".." and a backslash,
\* and names found inside and outside the library
Segs ==
    {<<>>, <<dot>>, <<dot, dot>>, <<dot, dot, bslash>>, <<dot, dot, bslash, dot, dot>>,
     <<"r">>, nM, nA, nE}

RECURSIVE SegSeqs(_)
\* the sequences of at most n segments
SegSeqs(n) ==
    IF n = 0 THEN {<<>>}
    ELSE LET shorter == SegSeqs(n - 1)
         IN  shorter \cup {Append(ss, s) : ss \in shorter, s \in Segs}

PathInputs == {Join(ss, <<sep>>) : ss \in SegSeqs(MaxSegs)}

\* the relative path of every entry of the library, hidden ones included
EntryPaths ==
    {relative(p) : p \in {q \in DOMAIN LibraryTree(0) : startsWith(q, baseDir \o <<sep>>)}}

\* the paths sent to the endpoints
RequestPaths == PathInputs \cup EntryPaths

\* further paths sent to /api/image: an image that does not exist, the
\* library's image named through "..", an image of the sibling directory
ImagePaths ==
    {Join(<<nM, nP>>, <<sep>>), Join(<< <<dot, dot>>, nP >>, <<sep>>),
     Join(<< <<dot, dot>>, nE, nP >>, <<sep>>)}

\* the Range headers sent to /api/download: none, and the first byte
DownloadRanges == {<<>>, bytesEq \o <<"0", "-", "0">>}

\* search queries: missing, too short, matching and not matching
Queries == {<<>>, <<"a">>, <<"m", "p">>, <<"A", dot>>, <<"z", "z">>}

\* the queries sent to /api/search: missing, too short, long enough
RequestQueries == {<<>>, <<"a">>, <<"m", "p">>}

RangeChars == {"0", "1", "2", "3", "a", "-"}

RECURSIVE Strings(_, _)
\* the strings of at most n characters of the given set
Strings(cs, n) ==
    IF n = 0 THEN {<<>>}
    ELSE LET shorter == Strings(cs, n - 1)
         IN  shorter \cup {Append(s, c) : s \in shorter, c \in cs}

\* Range headers: "bytes=" followed by up to MaxRangeLen characters, and the
\* same without the unit
RangeInputs ==
    LET tails == Strings(RangeChars, MaxRangeLen)
    IN  {bytesEq \o s : s \in tails} \cup (tails \ {<<>>})

\* the paths of the videos of the library
VideoPaths == {nA, nC, Join(<<nM, nA>>, <<sep>>)}

----------------------------------------------------------------------------
(* Directory trees for the search *)

\* entries that may or may not be present below the video directory
OptionalPaths ==
    {Abs(<< <<"r">>, nA >>), Abs(<< <<"r">>, nB >>), Abs(<< <<"r">>, nC >>),
     Abs(<< <<"r">>, nN >>),
     Abs(<< <<"r">>, nH >>), Abs(<< <<"r">>, nH, nA >>),
     Abs(<< <<"r">>, nM >>), Abs(<< <<"r">>, nM, nA >>), Abs(<< <<"r">>, nM, nB >>),
     Abs(<< <<"r">>, nM, nM >>), Abs(<< <<"r">>, nM, nM, nA >>)}

OptionalDirs ==
    {Abs(<< <<"r">>, nH >>), Abs(<< <<"r">>, nM >>), Abs(<< <<"r">>, nM, nM >>)}

\* the tree holding the video directory and the given entries
Tree(S) ==
    [p \in {Abs(<<>>), videoDirectory} \cup S |->
        IF p \in OptionalDirs \/ p \notin S THEN Dir ELSE File(1)]

\* every tree in which each entry lies in a directory that is present
SearchTrees ==
    {Tree(S) : S \in {T \in SUBSET OptionalPaths :
                        \A p \in T : dirname(p) \in T \cup {videoDirectory}}}

\* the entries whose reading may fail: a file followed by other entries of
\* its directory, a folder followed by files, and a file in a folder
FailingCandidates ==
    {Abs(<< <<"r">>, nA >>), Abs(<< <<"r">>, nM >>), Abs(<< <<"r">>, nM, nA >>)}

\* the trees in which one entry cannot be read
FailingTrees ==
    UNION {{[t EXCEPT ![p] = Failing(t[p])] : p \in FailingCandidates \cap DOMAIN t}
           : t \in SearchTrees}

----------------------------------------------------------------------------
(* Requests of the session scenarios *)

\* number of albums ever created
MaxAlbums == 1
\* number of paths in one delete request
MaxDeletes == 2

Passwords == {password, <<"x">>}

\* the paths the read-only endpoints are asked for in the session scenarios
SessionPaths == {<<>>, nA, nP}

DeletePaths == {nA, nN, <<dot, dot>>, <<sep>>}

DeleteBodies ==
    {[path |-> p, multiple |-> FALSE, paths |-> <<>>] : p \in {<<>>, nA}}
    \cup {[path |-> <<>>, multiple |-> TRUE, paths |-> ps]
          : ps \in UNION {[1..n -> DeletePaths] : n \in 0..MaxDeletes}}

RenameBodies ==
    {[path |-> p, newName |-> n]
     : p \in {nA, <<dot, sep>> \o nA}, n \in {nB, nA, nN}}
    \cup {[path |-> <<dot>>, newName |-> nB]}

FolderBodies ==
    {[path |-> <<>>, name |-> n] : n \in {nD, nM, <<dot, dot>>}}
    \cup {[path |-> nA, name |-> nD]}

UploadBodies ==
    {[multipart |-> FALSE, path |-> <<>>, files |-> <<>>],
     [multipart |-> TRUE, path |-> <<>>, files |-> <<>>],
     [multipart |-> TRUE, path |-> <<>>, files |-> <<[filename |-> nB, size |-> 1]>>],
     [multipart |-> TRUE, path |-> nM,
      files |-> <<[filename |-> <<dot, dot, sep>> \o nB, size |-> 1]>>],
     [multipart |-> TRUE, path |-> <<>>,
      files |-> <<[filename |-> <<dot, dot, sep>> \o nB, size |-> 1]>>]}

AlbumIds == 1..(MaxAlbums + 1)
AlbumNames == {<<"x">>, <<" ">>}
AlbumVideoPaths == {<<>>, nA, <<dot, sep>> \o nA}

NoReqBody == [none |-> TRUE]

\* the routes of the server that a request can name
Endpoints ==
    {"login", "logout", "browse", "search", "image", "video", "download",
     "delete", "rename", "folder", "upload", "albums"}

\* Host headers: none, a local one, one of another machine
HostHeaders == {<<>>, LocalHost, <<"example.com", "3000">>}

----------------------------------------------------------------------------
(* State machine *)

\* a slot of the process for a request in flight. at is where its handler
\* stands: "free" (no request), "stat" (suspended at await fs.promises.stat),
\* "renaming" (suspended at await fs.promises.rename), "piping" (the read
\* stream is piped into the response), "aborted" (the client closed the
\* connection while the stream was piped), "done" (the response is
\* complete). stream is the state of the read stream: "none", "opening"
\* (created, file not opened yet), "open", "closed". trace lists the stages
\* of the request that the handler has passed.
NoRequest ==
    [kind |-> "none", at |-> "free", path |-> <<>>, range |-> <<>>,
     newName |-> <<>>, stats |-> "none", status |-> 0, file |-> <<>>,
     total |-> 0, sent |-> 0, stream |-> "none", trace |-> <<>>,
     target |-> <<>>, clobbered |-> FALSE]

ReqIds == 1..MaxRequests

\* the process after start-up: it runs and no request is in flight
QuietNode == [up |-> TRUE, req |-> [r \in ReqIds |-> NoRequest]]

Idle(fsys) ==
    /\ pc = "idle"
    /\ endpoint = "none"
    /\ reqPath = <<>>
    /\ reqQuery = <<>>
    /\ reqRange = <<>>
    /\ reqBody = NoReqBody
    /\ reqHost = <<>>
    /\ maxResults = DefaultMaxResults
    /\ sanitized = NotCalled
    /\ status = 0
    /\ headers = NoHeaders
    /\ body = NoBody
    /\ fsOps = <<>>
    /\ fs = fsys
    /\ node = QuietNode

\* the response out is sent; the filesystem, the tables and the session are
\* as the handler left them
Answer(out) ==
    /\ pc' = "done"
    /\ sanitized' = out.sanitized
    /\ status' = out.status
    /\ headers' = out.headers
    /\ body' = out.body
    /\ fsOps' = out.fsOps
    /\ fs' = IF "fs" \in DOMAIN out THEN out.fs ELSE fs
    /\ db' = IF "db" \in DOMAIN out THEN out.db ELSE db
    /\ session' = IF "session" \in DOMAIN out THEN out.session ELSE session
    /\ node.up
    /\ UNCHANGED <<config, node>>

\* a handler ran to its end on a request with query parameters; the handler
\* runs once and its outcome is the response
Respond(ep, p, q, r, m, outcome) ==
    /\ endpoint' = ep
    /\ reqPath' = p
    /\ reqQuery' = q
    /\ reqRange' = r
    /\ reqBody' = NoReqBody
    /\ reqHost' = LocalHost
    /\ maxResults' = m
    /\ \E out \in {outcome} : Answer(out)

\* a handler ran to its end on a request with a body
RespondBody(ep, b, outcome) ==
    /\ endpoint' = ep
    /\ reqPath' = <<>>
    /\ reqQuery' = <<>>
    /\ reqRange' = <<>>
    /\ reqBody' = b
    /\ reqHost' = LocalHost
    /\ maxResults' = DefaultMaxResults
    /\ \E out \in {outcome} : Answer(out)

\* a request whose Host header names no allowed host: the network isolation
\* middleware answers it and no route is reached
Blocked ==
    /\ pc = "idle"
    /\ \E ep \in Endpoints, h \in HostHeaders, pw \in Passwords :
        /\ hostname(h) \notin allowedHosts
        /\ endpoint' = ep
        /\ reqPath' = <<>>
        /\ reqQuery' = <<>>
        /\ reqRange' = <<>>
        /\ reqBody' = IF ep = "login" THEN [password |-> pw] ELSE NoReqBody
        /\ reqHost' = h
        /\ maxResults' = DefaultMaxResults
        /\ Answer(Forbidden)

Login ==
    /\ pc = "idle"
    /\ \E pw \in Passwords :
        RespondBody("login", [password |-> pw], apiLogin(pw))

Logout ==
    /\ pc = "idle"
    /\ RespondBody("logout", NoReqBody, requireAuth(session, apiLogout))

Browse(paths) ==
    /\ pc = "idle"
    /\ \E p \in paths :
        LET out == requireAuth(session, apiBrowse(fs, p))
        IN  Respond("browse", p, <<>>, <<>>, DefaultMaxResults, out)

Search(paths, queries) ==
    /\ pc = "idle"
    /\ \E p \in paths, q \in queries :
        LET out == requireAuth(session, apiSearch(fs, q, p))
        IN  Respond("search", p, q, <<>>, DefaultMaxResults, out)

Image(paths) ==
    /\ pc = "idle"
    /\ \E p \in paths :
        LET out == requireAuth(session, apiImage(fs, p))
        IN  Respond("image", p, <<>>, <<>>, DefaultMaxResults, out)

Video(paths, ranges) ==
    /\ pc = "idle"
    /\ \E p \in paths, r \in ranges :
        LET out == requireAuth(session, apiVideo(fs, p, r))
        IN  Respond("video", p, <<>>, r, DefaultMaxResults, out)

\* the download handler never reads the Range header of the request
Download(paths) ==
    /\ pc = "idle"
    /\ \E p \in paths, r \in DownloadRanges :
        LET out == requireAuth(session, apiDownload(fs, p))
        IN  Respond("download", p, <<>>, r, DefaultMaxResults, out)

DeleteOf(bodies) ==
    /\ pc = "idle"
    /\ \E b \in bodies :
        LET out == requireAuth(session, apiDelete(fs, b))
        IN  RespondBody("delete", b, out)

Delete == DeleteOf(DeleteBodies)

Rename ==
    /\ pc = "idle"
    /\ \E b \in RenameBodies :
        LET out == requireAuth(session, apiRename(fs, db, b))
        IN  RespondBody("rename", b, out)

Folder ==
    /\ pc = "idle"
    /\ \E b \in FolderBodies :
        LET out == requireAuth(session, apiFolder(fs, b))
        IN  RespondBody("folder", b, out)

Upload ==
    /\ pc = "idle"
    /\ \E b \in UploadBodies :
        LET out == requireAuth(session, apiUpload(fs, b))
        IN  RespondBody("upload", b, out)

Albums ==
    /\ pc = "idle"
    /\ \/ RespondBody("albums", NoReqBody, requireAuth(session, apiAlbums(db)))
       \/ \E id \in AlbumIds :
            \/ RespondBody("albums", [id |-> id],
                           requireAuth(session, apiAlbum(fs, db, id)))
            \/ RespondBody("albums", [id |-> id, delete |-> TRUE],
                           requireAuth(session, apiAlbumDelete(db, id)))
            \/ \E n \in AlbumNames :
                 RespondBody("albums", [id |-> id, name |-> n],
                             requireAuth(session, apiAlbumUpdate(db, id, [name |-> n])))
            \/ \E vp \in AlbumVideoPaths :
                 \/ RespondBody("albums", [id |-> id, video_path |-> vp],
                                requireAuth(session,
                                    apiAlbumAddVideo(fs, db, id, [video_path |-> vp])))
                 \/ RespondBody("albums", [id |-> id, video_path |-> vp, delete |-> TRUE],
                                requireAuth(session,
                                    apiAlbumRemoveVideo(db, id, [video_path |-> vp])))
       \/ /\ db.nextId <= MaxAlbums
          /\ \E n \in AlbumNames :
               RespondBody("albums", [name |-> n],
                           requireAuth(session, apiAlbumCreate(db, [name |-> n])))

\* searchVideosRecursive called on a directory of the library
SearchCall ==
    /\ pc = "idle"
    /\ \E start \in {d \in DOMAIN fs : isDirectory(fs, d) /\ d # Abs(<<>>)},
       q \in Queries, m \in 1..MaxCap :
        LET found == searchVideosRecursive(fs, start, q, m)
        IN  Respond("searchVideosRecursive", relative(start), q, <<>>, m,
                    Resp(Returned(start), 0, NoHeaders, ResultsBody(found.results),
                         found.ops))

\* the response is complete; the request-scoped values are dropped
Finish ==
    /\ pc = "done"
    /\ pc' = "idle"
    /\ endpoint' = "none"
    /\ reqPath' = <<>>
    /\ reqQuery' = <<>>
    /\ reqRange' = <<>>
    /\ reqBody' = NoReqBody
    /\ reqHost' = <<>>
    /\ maxResults' = DefaultMaxResults
    /\ sanitized' = NotCalled
    /\ status' = 0
    /\ headers' = NoHeaders
    /\ body' = NoBody
    /\ fsOps' = <<>>
    /\ UNCHANGED <<fs, config, session, db, node>>

\* requests of a logged-in client with arbitrary paths against the library
Init ==
    /\ Idle(LibraryTree(MaxFileSize))
    /\ config = DefaultConfig
    /\ session = LoggedIn
    /\ db = EmptyDb

\* the paths sent to /api/image
ImageRequestPaths == RequestPaths \cup ImagePaths

\* the Range headers sent to /api/video, and none
RangeHeaders == RangeInputs \cup {<<>>}

\* a request without a Range header
NoRange == {<<>>}

\* the search query of a logged-in client
SessionQueries == {<<"m", "p">>}

Next ==
    \/ Browse(RequestPaths)
    \/ Search(RequestPaths, RequestQueries)
    \/ Image(ImageRequestPaths)
    \/ Video(RequestPaths, NoRange)
    \/ Download(RequestPaths)
    \/ Finish

Spec == Init /\ [][Next]_vars

\* video requests with arbitrary Range headers for videos of every size
InitRange ==
    /\ \E n \in 0..MaxFileSize : Idle(LibraryTree(n))
    /\ config = DefaultConfig
    /\ session = LoggedIn
    /\ db = EmptyDb

NextRange ==
    \/ Video(VideoPaths, RangeHeaders)
    \/ Finish

SpecRange == InitRange /\ [][NextRange]_vars

\* searchVideosRecursive on arbitrary trees, queries, result caps and depth
\* limits
InitSearch ==
    /\ \E tree \in SearchTrees \cup FailingTrees : Idle(tree)
    /\ \E d \in 0..MaxDepth : config = [maxRecursionDepth |-> d]
    /\ session = LoggedIn
    /\ db = EmptyDb

NextSearch ==
    \/ SearchCall
    \/ Finish

SpecSearch == InitSearch /\ [][NextSearch]_vars

\* one client that logs in and out and sends requests to every endpoint
InitSession ==
    /\ Idle(LibraryTree(1))
    /\ config = DefaultConfig
    /\ session = LoggedOut
    /\ db = EmptyDb

NextSession ==
    \/ Blocked
    \/ Login
    \/ Logout
    \/ Browse(SessionPaths)
    \/ Search(SessionPaths, SessionQueries)
    \/ Image(SessionPaths)
    \/ Video(SessionPaths, NoRange)
    \/ Download(SessionPaths)
    \/ Delete
    \/ Rename
    \/ Folder
    \/ Upload
    \/ Albums
    \/ Finish

SpecSession == InitSession /\ [][NextSession]_vars

----------------------------------------------------------------------------
(* Concurrent requests: the streaming and rename handlers step by step.   *)
(* A handler runs without interruption up to its next await; the work it  *)
(* awaits (stat, rename, the opening and reading of a read stream) is     *)
(* done later, and the handlers of other requests run in between.         *)

\* the paths sent to /api/video: a video (which no longer exists once it
\* has been deleted or renamed), a text file, a rejected path
StreamPaths == {nA, nN, <<sep>>}

\* the Range headers sent: none, the first byte
StreamRanges == {<<>>, bytesEq \o <<"0", "-", "0">>}

\* the video requests sent: the video with each Range header, the other
\* paths without one
VideoRequests ==
    {<<p, range>> \in StreamPaths \X StreamRanges : p = nA \/ range = <<>>}

\* slot r is the first free slot of the process
firstFree(r) ==
    /\ node.req[r].at = "free"
    /\ \A s \in 1..(r - 1) : node.req[s].at # "free"

\* the path sent to /api/download: a video
StreamDownloads == {nA}

\* the delete request sent while streams are in flight: the video
StreamDeletes == {[multiple |-> FALSE, path |-> nA, paths |-> <<>>]}

\* two rename requests for different files and the same new name
RaceRenames == {[path |-> nA, newName |-> nB], [path |-> nC, newName |-> nB]}

\* the variables of the requests that are answered in one step
atomicVars ==
    <<pc, endpoint, reqPath, reqQuery, reqRange, reqBody, reqHost, maxResults,
      sanitized, status, headers, body, fsOps, config, session>>

\* the slot r of the process becomes q
Slot(r, q) == node' = [node EXCEPT !.req[r] = q]

\* the stages a streaming handler passes once stat has resolved and the
\* handler has run to its response out
stagesAfterStat(out) ==
    IF out.body.kind = "stream"
    THEN <<"PathValidated", "Classified",
           IF out.status = 206 THEN "RangeStream" ELSE "FullStream">>
    ELSE IF out.body.error = "ENOENT" THEN <<"Failed">>
    ELSE IF out.status = 400 THEN <<"PathValidated", "Failed">>
    ELSE <<"PathValidated", "Classified", "Failed">>

\* GET /api/video or /api/download up to await fs.promises.stat: a missing
\* path parameter and a path that sanitizePath rejects are answered at once
StreamReceived(r, kind, p, range) ==
    /\ node.up
    /\ session.authenticated
    /\ firstFree(r)
    /\ \E out \in {IF kind = "video" THEN apiVideo(fs, p, range)
                    ELSE apiDownload(fs, p)} :
        IF p = <<>> \/ ~out.sanitized.ok
        THEN Slot(r, [NoRequest EXCEPT !.kind = kind, !.path = p, !.range = range,
                                       !.at = "done", !.status = out.status,
                                       !.trace = <<"Received", "Failed">>])
        ELSE Slot(r, [NoRequest EXCEPT !.kind = kind, !.path = p, !.range = range,
                                       !.at = "stat", !.file = out.sanitized.path,
                                       !.trace = <<"Received">>])
    /\ UNCHANGED <<atomicVars, fs, db>>

VideoReceived(r) ==
    \E v \in VideoRequests : StreamReceived(r, "video", v[1], v[2])

DownloadReceived(r) ==
    \E p \in StreamDownloads : StreamReceived(r, "download", p, <<>>)

\* stat has resolved against the filesystem as it is now, and the handler
\* runs on to its error response or to writeHead/setHeader, createReadStream
\* and pipe
StatResolved(r) ==
    /\ node.up
    /\ node.req[r].at = "stat"
    /\ \E q \in {node.req[r]} :
       \E out \in {IF q.kind = "video" THEN apiVideo(fs, q.path, q.range)
                    ELSE apiDownload(fs, q.path)} :
        Slot(r, [q EXCEPT
                    !.stats = IF exists(fs, q.file) THEN fs[q.file].kind ELSE "ENOENT",
                    !.status = out.status,
                    !.trace = @ \o stagesAfterStat(out),
                    !.at = IF out.body.kind = "stream" THEN "piping" ELSE "done",
                    !.stream = IF out.body.kind = "stream" THEN "opening" ELSE "none",
                    !.file = IF out.body.kind = "stream" THEN out.body.file ELSE @,
                    !.total = IF out.body.kind = "stream" THEN out.body.bytes ELSE 0])
    /\ UNCHANGED <<atomicVars, fs, db>>

\* the read stream opens its file. When the file is no longer there the
\* stream emits 'error'; no handler listens for it, so the event is thrown
\* as an uncaught exception and the process exits
StreamOpened(r) ==
    /\ node.up
    /\ node.req[r].stream = "opening"
    /\ IF isFile(fs, node.req[r].file)
       THEN node' = [node EXCEPT !.req[r].stream = "open"]
       ELSE node' = [node EXCEPT !.req[r].stream = "closed", !.up = FALSE]
    /\ UNCHANGED <<atomicVars, fs, db>>

\* one more byte of the file is read and written to the response
StreamRead(r) ==
    /\ node.up
    /\ node.req[r].at = "piping"
    /\ node.req[r].stream = "open"
    /\ node.req[r].sent < node.req[r].total
    /\ node' = [node EXCEPT !.req[r].sent = @ + 1]
    /\ UNCHANGED <<atomicVars, fs, db>>

\* the read stream has delivered its last byte: 'end' ends the response, and
\* autoClose closes the file
StreamEnded(r) ==
    /\ node.up
    /\ node.req[r].at = "piping"
    /\ node.req[r].stream = "open"
    /\ node.req[r].sent = node.req[r].total
    /\ node' = [node EXCEPT !.req[r].at = "done", !.req[r].stream = "closed",
                            !.req[r].trace = Append(@, "Completed")]
    /\ UNCHANGED <<atomicVars, fs, db>>

\* a read of the open file fails: the stream is destroyed and emits 'error',
\* for which no handler listens
StreamFailed(r) ==
    /\ node.up
    /\ node.req[r].at = "piping"
    /\ node.req[r].stream = "open"
    /\ node' = [node EXCEPT !.req[r].stream = "closed", !.up = FALSE]
    /\ UNCHANGED <<atomicVars, fs, db>>

\* the client closes the connection while the stream is piped: pipe's
\* listener for 'close' of the response unpipes the read stream, which is
\* neither read further nor destroyed
ClientAborted(r) ==
    /\ node.up
    /\ node.req[r].at = "piping"
    /\ node' = [node EXCEPT !.req[r].at = "aborted"]
    /\ UNCHANGED <<atomicVars, fs, db>>

\* PATCH /api/video/rename up to await fs.promises.rename: the checks of the
\* request and existsSync(newFullPath) are made now, the rename itself later
RenameReceived(r) ==
    /\ node.up
    /\ session.authenticated
    /\ firstFree(r)
    /\ \E b \in RaceRenames :
       \E out \in {apiRename(fs, db, b)} :
        IF \E i \in 1..Len(out.fsOps) : out.fsOps[i].op = "rename"
        THEN Slot(r, [NoRequest EXCEPT
                         !.kind = "rename", !.path = b.path, !.newName = b.newName,
                         !.at = "renaming", !.file = out.sanitized.path,
                         !.target = join(dirname(out.sanitized.path), b.newName)])
        ELSE Slot(r, [NoRequest EXCEPT
                         !.kind = "rename", !.path = b.path, !.newName = b.newName,
                         !.at = "done", !.status = out.status])
    /\ UNCHANGED <<atomicVars, fs, db>>

\* the rename is carried out on the filesystem as it is now, replacing a
\* file that has appeared at the new path since existsSync; then the album
\* rows are updated and the response is sent
RenameDone(r) ==
    /\ node.up
    /\ node.req[r].at = "renaming"
    /\ \E q \in {node.req[r]} :
       \E out \in {apiRename(unlink(fs, q.target), db,
                              [path |-> q.path, newName |-> q.newName])} :
        /\ Slot(r, [q EXCEPT !.at = "done", !.status = out.status,
                             !.clobbered = exists(fs, q.file) /\ exists(fs, q.target)])
        /\ fs' = IF "fs" \in DOMAIN out THEN out.fs ELSE fs
        /\ db' = IF "db" \in DOMAIN out THEN out.db ELSE db
    /\ UNCHANGED atomicVars

\* the request of slot r is over and its read stream, if it had one, is
\* closed: the slot is free again
Released(r) ==
    /\ node.up
    /\ node.req[r].at \in {"done", "aborted"}
    /\ node.req[r].stream \in {"none", "closed"}
    /\ Slot(r, NoRequest)
    /\ UNCHANGED <<atomicVars, fs, db>>

\* concurrent video, download and rename requests of a logged-in client,
\* next to delete requests
InitStream ==
    /\ Idle(LibraryTree(MaxFileSize))
    /\ config = DefaultConfig
    /\ session = LoggedIn
    /\ db = EmptyDb

NextStream ==
    \/ \E r \in ReqIds :
          \/ VideoReceived(r)
          \/ DownloadReceived(r)
          \/ StatResolved(r)
          \/ StreamOpened(r)
          \/ StreamRead(r)
          \/ StreamEnded(r)
          \/ StreamFailed(r)
          \/ ClientAborted(r)
          \/ RenameReceived(r)
          \/ RenameDone(r)
          \/ Released(r)
    \/ DeleteOf(StreamDeletes)
    \/ Finish

SpecStream == InitStream /\ [][NextStream]_vars

----------------------------------------------------------------------------
(* Properties *)

CoreEndpoints == {"browse", "search", "video", "image", "download"}

\* t is the video directory or lies below it
insideRoot(t) == t = baseDir \/ startsWith(t, baseDir \o <<sep>>)

\* the place a client path names, resolved against the video directory with
\* nothing stripped, lies outside the video directory
escapesRoot(p) == ~insideRoot(resolve(baseDir, p))

hasDotDotSegment(p) == \E i \in 1..Len(split(p, sep)) : split(p, sep)[i] = <<dot, dot>>

\* C1: for every relative path whose ".." segments lead out of the video
\* directory, sanitizePath throws the traversal error and the request makes no
\* filesystem call.
C1_EscapingPathRejected ==
    (/\ pc = "done"
     /\ endpoint \in CoreEndpoints
     /\ sanitized.called
     /\ ~isAbsolute(reqPath)
     /\ hasDotDotSegment(reqPath)
     /\ escapesRoot(reqPath))
    => (~sanitized.ok /\ fsOps = <<>>)

\* C2: every path sanitizePath returns, whatever the input, is the video
\* directory itself or starts with the video directory followed by "/"; the
\* sibling directory whose name starts with the name of the video directory is
\* never returned. The same holds for the sanitizePath of the token-based
\* server variant.
C2_ReturnedPathInsideRoot ==
    /\ sanitized.ok =>
          /\ insideRoot(sanitized.path)
          /\ sanitized.path # Abs(<<nE>>)
          /\ ~startsWith(sanitized.path, Abs(<<nE>>) \o <<sep>>)
    /\ (pc = "done" /\ sanitizePathSimple(reqPath).ok) =>
          insideRoot(sanitizePathSimple(reqPath).path)

\* C2 witness: an absolute-looking input with a ".." segment for which
\* sanitizePath returned a path below the video directory
C2_Witness ==
    /\ pc = "done"
    /\ isAbsolute(reqPath)
    /\ hasDotDotSegment(reqPath)
    /\ sanitized.ok
    /\ sanitized.path # baseDir

\* C3: for every relative path that stays inside the video directory,
\* sanitizePath returns a path and throws nothing; for the empty path it
\* returns the video directory itself.
C3_InsidePathAccepted ==
    (/\ pc = "done"
     /\ sanitized.called
     /\ ~isAbsolute(reqPath)
     /\ ~escapesRoot(reqPath))
    => (/\ sanitized.ok
        /\ reqPath = <<>> => sanitized.path = baseDir)

\* C4: a browse or search request whose path leads out of the video directory
\* is answered with a rejection, never with a listing or with search results.
C4_NoFallbackToRoot ==
    (/\ pc = "done"
     /\ endpoint \in {"browse", "search"}
     /\ endpoint = "search" => Len(reqQuery) >= 2
     /\ escapesRoot(reqPath))
    => (status >= 400 /\ body.kind = "error")

\* C5: a video request whose path starts with ".." segments leading out of the
\* video directory ends with the traversal error reported as status 400, and
\* no file byte is written.
C5_VideoTraversalIs400 ==
    (/\ pc = "done"
     /\ endpoint = "video"
     /\ startsWith(reqPath, <<dot, dot, sep>>)
     /\ escapesRoot(reqPath))
    => (/\ ~sanitized.ok
        /\ status = 400
        /\ body.kind # "stream")

\* C6: whenever sanitizePath throws the traversal error in a core endpoint, the
\* response status is 400 or 403.
C6_TraversalIsClientError ==
    (/\ pc = "done"
     /\ endpoint \in CoreEndpoints
     /\ sanitized.called
     /\ ~sanitized.ok)
    => status \in {400, 403}

\* C7: searchVideosRecursive never returns more than maxResults results.
C7_ResultsCapped ==
    (pc = "done" /\ endpoint = "searchVideosRecursive")
    => Len(body.files) <= maxResults

isNumeral(s) == s # <<>> /\ \A i \in 1..Len(s) : isDigit(s[i])

\* the text after the unit of a Range header, split at "-"
rangeParts(h) == split(SubSeq(h, Len(bytesEq) + 1, Len(h)), "-")

\* h reads bytes=<start>-<end> or bytes=<start>-
wellFormedRange(h) ==
    /\ startsWith(h, bytesEq)
    /\ Len(rangeParts(h)) = 2
    /\ isNumeral(rangeParts(h)[1])
    /\ rangeParts(h)[2] = <<>> \/ isNumeral(rangeParts(h)[2])

rangeStartOf(h) == parseDigits(rangeParts(h)[1], 0)
rangeHasEnd(h) == rangeParts(h)[2] # <<>>
rangeEndOf(h) == parseDigits(rangeParts(h)[2], 0)

\* the request names a video of the library
videoServed == sanitized.ok /\ isFile(fs, sanitized.path) /\ isVideoFile(sanitized.path)

opened == \E i \in 1..Len(fsOps) : fsOps[i].op = "createReadStream"

\* C8: a range request whose start is at or beyond the file size never gets a
\* 206 response and never opens a read stream.
C8_StartBeyondEofFails ==
    (/\ pc = "done"
     /\ endpoint = "video"
     /\ videoServed
     /\ wellFormedRange(reqRange)
     /\ rangeStartOf(reqRange) >= fs[sanitized.path].size)
    => (status >= 400 /\ status # 206 /\ ~opened)

\* C9: a Range header with malformed syntax, or with start greater than end,
\* gets a 4xx response and neither 206 nor 500.
C9_MalformedRangeIs4xx ==
    (/\ pc = "done"
     /\ endpoint = "video"
     /\ videoServed
     /\ reqRange # <<>>
     /\ \/ ~wellFormedRange(reqRange)
        \/ rangeHasEnd(reqRange) /\ rangeStartOf(reqRange) > rangeEndOf(reqRange))
    => (status >= 400 /\ status < 500)

\* C10: every 206 response describes a range with 0 <= start <= end < fileSize,
\* and its Content-Length is not more than the bytes the file supplies.
C10_PartialContentWithinFile ==
    (pc = "done" /\ endpoint = "video" /\ status = 206)
    => (/\ isInt(headers.rangeStart) /\ isInt(headers.rangeEnd)
        /\ 0 <= headers.rangeStart.v
        /\ headers.rangeStart.v <= headers.rangeEnd.v
        /\ headers.rangeEnd.v < headers.rangeTotal.v
        /\ isInt(headers.contentLength)
        /\ headers.contentLength.v <= body.bytes)

\* the last byte a well-formed range names in a file of n bytes: the given end,
\* or n - 1 when the end is omitted
rangeLastOf(h, n) == IF rangeHasEnd(h) THEN rangeEndOf(h) ELSE n - 1

\* the request is a video request for a library video of size N with a range
\* bytes=<start>-<end> or bytes=<start>-, 0 <= start <= end < N
satisfiableRange ==
    /\ pc = "done"
    /\ endpoint = "video"
    /\ videoServed
    /\ wellFormedRange(reqRange)
    /\ rangeStartOf(reqRange) <= rangeLastOf(reqRange, fs[sanitized.path].size)
    /\ rangeLastOf(reqRange, fs[sanitized.path].size) < fs[sanitized.path].size

\* C11: for a video of size N and a range bytes=<start>-<end> with
\* 0 <= start <= end < N (end being N - 1 when omitted), the response is 206
\* with Content-Range "bytes start-end/N", Accept-Ranges "bytes",
\* Content-Length end - start + 1, and the body is the bytes start..end of the
\* file.
C11_RangeServedExactly ==
    satisfiableRange =>
        LET N == fs[sanitized.path].size
            first == rangeStartOf(reqRange)
            last == rangeLastOf(reqRange, N)
        IN  /\ status = 206
            /\ headers.rangeStart = Int_(first)
            /\ headers.rangeEnd = Int_(last)
            /\ headers.rangeTotal = Int_(N)
            /\ headers.acceptRanges = "bytes"
            /\ headers.contentLength = Int_(last - first + 1)
            /\ body = StreamBody(sanitized.path, first, last - first + 1)

\* C11 witness: a range of one byte that starts at the last position of a
\* video of two or more bytes was served
C11_Witness ==
    /\ satisfiableRange
    /\ status = 206
    /\ rangeStartOf(reqRange) = fs[sanitized.path].size - 1
    /\ rangeStartOf(reqRange) > 0
    /\ body.bytes = 1

\* C12: a request without Range header for a library video is answered 200
\* with Content-Length equal to the file size and the Content-Type of the
\* file's extension (video/mp4 for .mp4, video/x-msvideo for .avi), and the
\* whole file is streamed.
C12_FullFileServed ==
    (/\ pc = "done"
     /\ endpoint = "video"
     /\ videoServed
     /\ reqRange = <<>>)
    => LET N == fs[sanitized.path].size
           ext == extname(sanitized.path)
       IN  /\ status = 200
           /\ headers.contentLength = Int_(N)
           /\ ext = Ext(<<"m", "p", "4">>) => headers.contentType = "video/mp4"
           /\ ext = Ext(<<"a", "v", "i">>) => headers.contentType = "video/x-msvideo"
           /\ headers.contentType = getMimeType(sanitized.path)
           /\ headers.rangeStart = None
           /\ body = StreamBody(sanitized.path, 0, N)

\* C12 witness: a non-empty .avi video was served whole
C12_Witness ==
    /\ pc = "done"
    /\ endpoint = "video"
    /\ videoServed
    /\ reqRange = <<>>
    /\ status = 200
    /\ extname(sanitized.path) = Ext(<<"a", "v", "i">>)
    /\ body.bytes = MaxFileSize

\* C13: a video request for a path that does not exist, is not a regular file
\* or has no allow-listed video extension gets a 4xx response, and no read
\* stream is opened.
C13_InvalidVideoIsClientError ==
    (/\ pc = "done"
     /\ endpoint = "video"
     /\ sanitized.ok
     /\ ~videoServed)
    => (status \in 400..499 /\ ~opened)

C14_WitnessFolder ==
    /\ pc = "done"
    /\ endpoint = "download"
    /\ sanitized.ok
    /\ isDirectory(fs, sanitized.path)
    /\ status = 400

searchDone == pc = "done" /\ endpoint = "searchVideosRecursive"

\* the names on the way from the directory start down to p, p's own included
segmentsBelow(start, p) == split(SubSeq(p, Len(start) + 2, Len(p)), sep)

\* the depth of directory d counted from the start directory, which is 0
depthBelow(start, d) == IF d = start THEN 0 ELSE Len(segmentsBelow(start, d))

\* the directories from start down to the directory holding p
ancestorsFrom(start, p) ==
    {a \in DOMAIN fs : /\ a = start \/ startsWith(a, start \o <<sep>>)
                       /\ startsWith(p, a \o <<sep>>)}

\* the files a search from sanitized.path for reqQuery has to return: below
\* the start directory, no hidden name on the way, in a directory within the
\* depth limit, matching the query, readable and in readable directories
expectedResults ==
    {p \in DOMAIN fs :
        /\ isFile(fs, p)
        /\ startsWith(p, sanitized.path \o <<sep>>)
        /\ \A i \in 1..Len(segmentsBelow(sanitized.path, p)) :
              ~startsWith(segmentsBelow(sanitized.path, p)[i], <<dot>>)
        /\ depthBelow(sanitized.path, dirname(p)) <= config.maxRecursionDepth
        /\ includes(toLowerCase(basename(p)), toLowerCase(reqQuery))
        /\ ~fs[p].err
        /\ \A a \in ancestorsFrom(sanitized.path, p) : ~fs[a].err}

resultPaths == {body.files[i].path : i \in 1..Len(body.files)}

allReadable == \A p \in DOMAIN fs : ~fs[p].err

\* C15: with config.maxRecursionDepth = d a search reads only directories at
\* depth at most d below the start directory and stats and returns only files
\* of such directories (with d = 0: the start directory and its own files);
\* the call ends with the results collected within the limit: when every
\* entry is readable and the result cap was not reached, these are exactly
\* the matching files within the limit.
C15_DepthLimited ==
    searchDone =>
        /\ \A i \in 1..Len(fsOps) :
              /\ fsOps[i].op = "readdir" =>
                    depthBelow(sanitized.path, fsOps[i].path) <= config.maxRecursionDepth
              /\ fsOps[i].op = "stat" =>
                    depthBelow(sanitized.path, dirname(fsOps[i].path))
                        <= config.maxRecursionDepth
        /\ \A i \in 1..Len(body.files) :
              depthBelow(sanitized.path, dirname(Abs(<< <<"r">>, body.files[i].path >>)))
                  <= config.maxRecursionDepth
        /\ body.kind = "results"
        /\ (allReadable /\ Len(body.files) < maxResults) =>
              resultPaths = {relative(p) : p \in expectedResults}

\* C15 witness: a search with depth limit 0 in a directory that has a folder
\* with a matching file returned the matching file of the start directory and
\* read no other directory
C15_Witness ==
    /\ searchDone
    /\ config.maxRecursionDepth = 0
    /\ allReadable
    /\ \E p \in DOMAIN fs :
          /\ isFile(fs, p)
          /\ startsWith(p, sanitized.path \o <<sep>>)
          /\ Len(segmentsBelow(sanitized.path, p)) = 2
          /\ ~isHidden(dirname(p))
          /\ includes(toLowerCase(basename(p)), toLowerCase(reqQuery))
    /\ Len(body.files) = 1
    /\ fsOps[1] = Op("readdir", sanitized.path)

\* a name of the relative path starts with "."
hasHiddenSegment(rel) ==
    \E i \in 1..Len(split(rel, sep)) : startsWith(split(rel, sep)[i], <<dot>>)

\* C16: no entry whose name starts with "." and no entry located under a
\* directory whose name starts with "." appears in a browse listing or in
\* search results, whatever directory the request names.
C16_NoHiddenEntryListed ==
    (pc = "done" /\ endpoint \in {"browse", "search"})
    => /\ \A i \in 1..Len(body.folders) : ~hasHiddenSegment(body.folders[i].path)
       /\ \A i \in 1..Len(body.files) : ~hasHiddenSegment(body.files[i].path)

\* C17: a search request whose query is missing or has fewer than 2
\* characters is answered 200 with no results, and the request neither
\* resolves its path nor makes a filesystem call, whatever its path is.
C17_ShortQueryShortCircuits ==
    (pc = "done" /\ endpoint = "search" /\ Len(reqQuery) < 2)
    => /\ status = 200
       /\ body = ResultsBody(<<>>)
       /\ fsOps = <<>>
       /\ ~sanitized.called

\* C17 witness: a search with a one-character query and a path that
\* sanitizePath rejects was answered with the empty result
C17_Witness ==
    /\ pc = "done"
    /\ endpoint = "search"
    /\ Len(reqQuery) = 1
    /\ ~sanitizePath(reqPath).ok
    /\ status = 200
    /\ body.kind = "results"

\* C18: when an entry met during a search cannot be read, the search still
\* returns every other matching file within the depth limit (later entries of
\* the same directory and files of other folders included), as long as the
\* result cap was not reached.
C18_OnlyFailingItemSkipped ==
    (searchDone /\ Len(body.files) < maxResults)
    => \A p \in expectedResults : relative(p) \in resultPaths

\* the entries directly inside directory d whose name does not start with "."
visibleChildren(d) == {p \in DOMAIN fs : p # d /\ dirname(p) = d /\ ~isHidden(p)}

\* the entry of the library a listed relative path names
listedEntry(rel) == videoDirectory \o <<sep>> \o rel

\* the type of a file by its extension, for the extensions of the library
typeByExtension(p) ==
    CASE extname(p) \in {Ext(<<"m", "p", "4">>), Ext(<<"a", "v", "i">>)} -> "video"
      [] extname(p) = Ext(<<"p", "n", "g">>) -> "image"
      [] extname(p) = Ext(<<"t", "x", "t">>) -> "document"
      [] OTHER -> "file"

C19_WitnessFile ==
    /\ pc = "done"
    /\ endpoint = "browse"
    /\ sanitized.ok
    /\ isFile(fs, sanitized.path)
    /\ status = 400

ProtectedEndpoints ==
    {"browse", "search", "video", "image", "download", "delete", "rename",
     "folder", "upload", "albums"}

C21_ImageContract ==
    (/\ pc = "done"
     /\ endpoint = "image")
    => LET named == resolve(baseDir, reqPath)
       IN  /\ ~isImageFile(reqPath) => status = 400
           /\ (isImageFile(reqPath) /\ ~exists(fs, named)) => status = 404
           /\ body.kind = "stream"
                => (insideRoot(named) /\ isImageFile(reqPath) /\ exists(fs, named))

\* C21, for the paths sanitizePath accepts without stripping anything: the
\* three answers are as the claim says
C21_ImageContractOfAcceptedPaths ==
    (/\ pc = "done"
     /\ endpoint = "image"
     /\ reqPath # <<>> => (sanitized.ok /\ sanitized.path = resolve(baseDir, reqPath)))
    => LET named == resolve(baseDir, reqPath)
       IN  /\ ~isImageFile(reqPath) => status = 400
           /\ (isImageFile(reqPath) /\ ~exists(fs, named)) => status = 404
           /\ body.kind = "stream"
                => (insideRoot(named) /\ isImageFile(reqPath) /\ exists(fs, named))

\* the root sentinel of the folder field
Home == <<"H", "o", "m", "e">>

\* the folder field the claim asks for of the result with path field rel
containingFolder(rel) ==
    IF dirname(resolve(baseDir, rel)) = baseDir THEN Home
    ELSE relative(dirname(resolve(baseDir, rel)))

\* C23: in every answer of /api/search the folder field of each result is
\* the relative directory that contains the file, and for a file directly in
\* the video directory it is the sentinel Home, never ".".
C23_FolderIsDirectoryOrHome ==
    (/\ pc = "done"
     /\ endpoint = "search"
     /\ body.kind = "results")
    => \A i \in 1..Len(body.files) :
          /\ body.files[i].folder = containingFolder(body.files[i].path)
          /\ body.files[i].folder # <<dot>>

\* C23, for the files below the video directory's folders: the folder field
\* is the relative directory that contains the file
C23_FolderOfNestedFiles ==
    (/\ pc = "done"
     /\ endpoint = "search"
     /\ body.kind = "results")
    => \A i \in 1..Len(body.files) :
          containingFolder(body.files[i].path) # Home
          => body.files[i].folder = containingFolder(body.files[i].path)

\* the album rows of the tables dbase that name the file at the absolute path
\* p, in whatever spelling they were stored
rowsNaming(dbase, p) ==
    {r \in dbase.videos : sanitizePath(r.video_path).ok
                          /\ sanitizePath(r.video_path).path = p}

\* a rename request is answered with success in this step
renameSucceeds ==
    /\ pc = "idle"
    /\ endpoint' = "rename"
    /\ status' = 200

\* C24: after every successful rename, each album row that named the renamed
\* file names its new relative path, and no album row names the old location
\* any more, whatever spelling of the old path the client sent.
C24_RenameRewritesAlbumRows ==
    [][renameSucceeds
       => LET old == sanitizePath(reqBody'.path).path
              new == join(dirname(old), reqBody'.newName)
          IN  /\ \A r \in rowsNaming(db, old) :
                    [album_id |-> r.album_id, video_path |-> relative(new)]
                        \in db'.videos
              /\ rowsNaming(db', old) = {}]_vars

\* C24, for the rows stored in the very spelling the client sends: they name
\* the new relative path after the rename
C24_SameSpellingRewritten ==
    [][renameSucceeds
       => LET old == sanitizePath(reqBody'.path).path
              new == join(dirname(old), reqBody'.newName)
          IN  \A r \in db.videos :
                 r.video_path = reqBody'.path
                 => /\ [album_id |-> r.album_id, video_path |-> relative(new)]
                          \in db'.videos
                    /\ r \notin db'.videos]_vars

\* the filesystem calls that change the library
MutatingOps == {"unlink", "rename", "mkdir", "writeFile"}

\* every mutating call of the last request to one of the endpoints eps names
\* a path below the video directory
mutationsBelowRoot(eps) ==
    (/\ pc = "done"
     /\ endpoint \in eps)
    => \A i \in 1..Len(fsOps) :
          fsOps[i].op \in MutatingOps
          => startsWith(fsOps[i].path, baseDir \o <<sep>>)

\* C26: every filesystem mutation of the delete, rename, create-folder and
\* upload handlers names a path that is a descendant of the video directory,
\* the rename destination and the upload destination included.
C26_MutationsInsideRoot == mutationsBelowRoot({"delete", "rename", "folder", "upload"})

\* C26, for the delete and create-folder handlers alone
C26_DeleteAndFolderInsideRoot == mutationsBelowRoot({"delete", "folder"})

\* how often x occurs in the sequence seq
occurrences(seq, x) == Cardinality({i \in 1..Len(seq) : seq[i] = x})

\* a delete request with a list of paths is answered in this step
deleteAnswered ==
    /\ pc = "idle"
    /\ endpoint' = "delete"
    /\ status' = 200

\* p names, in the filesystem fsys, a regular file with a video extension
\* that sanitizePath accepts
deletable(fsys, p) ==
    /\ sanitizePath(p).ok
    /\ isFile(fsys, sanitizePath(p).path)
    /\ isVideoFile(sanitizePath(p).path)

\* C29: when a delete request naming a list of paths is answered, each
\* requested path is in exactly one of deleted and failed (as often as it was
\* requested, so the two counts add up to the number of requested paths);
\* every requested path that named a regular video file is deleted although
\* other paths of the list failed; and the entries that are gone afterwards
\* are exactly regular files with a video extension inside the video
\* directory that the request named, nothing else having changed.
C29_EachPathDeletedOrFailed ==
    [][deleteAnswered
       => LET paths == pathsToDelete(reqBody')
              deleted == body'.done
              failed == [i \in 1..Len(body'.failed) |-> body'.failed[i].path]
          IN  /\ Len(deleted) + Len(failed) = Len(paths)
              /\ \A i \in 1..Len(paths) :
                    occurrences(deleted, paths[i]) + occurrences(failed, paths[i])
                        = occurrences(paths, paths[i])
              /\ \A i \in 1..Len(paths) :
                    deletable(fs, paths[i])
                    => /\ occurrences(deleted, paths[i]) = 1
                       /\ sanitizePath(paths[i]).path \notin DOMAIN fs'
              /\ \A q \in DOMAIN fs \ DOMAIN fs' :
                    /\ isFile(fs, q) /\ isVideoFile(q) /\ insideRoot(q)
                    /\ \E i \in 1..Len(paths) : sanitizePath(paths[i]).path = q
              /\ \A q \in DOMAIN fs' : q \in DOMAIN fs /\ fs'[q] = fs[q]
              /\ \A i \in 1..Len(fsOps') :
                    fsOps'[i].op = "unlink" => deletable(fs, relative(fsOps'[i].path))]_vars

\* C29 witness: a list whose first path is not a video and whose second path
\* is one was answered with the first path failed and the second deleted
C29_Witness ==
    /\ pc = "done"
    /\ endpoint = "delete"
    /\ status = 200
    /\ reqBody.multiple
    /\ reqBody.paths = <<nN, nA>>
    /\ body.done = <<nA>>
    /\ Len(body.failed) = 1
    /\ body.failed[1].path = nN
    /\ ~exists(fs, Abs(<< <<"r">>, nA >>))
    /\ exists(fs, Abs(<< <<"r">>, nN >>))

\* a login with the configured password is answered with success in this step
loginSucceeds ==
    /\ pc = "idle"
    /\ endpoint' = "login"
    /\ status' = 200

\* a logout is answered with success in this step
logoutSucceeds ==
    /\ pc = "idle"
    /\ endpoint' = "logout"
    /\ status' = 200

\* the session follows the logins and logouts: it becomes authenticated by
\* a successful login, which needs the configured password, stops being
\* authenticated by a successful logout, and changes in no other step
sessionFollowsLoginLogout ==
    /\ loginSucceeds => (reqBody'.password = password /\ session'.authenticated)
    /\ (pc = "idle" /\ endpoint' = "login" /\ reqBody'.password = password
            /\ hostname(reqHost') \in allowedHosts) => loginSucceeds
    /\ logoutSucceeds => (session.authenticated /\ ~session'.authenticated)
    /\ (pc = "idle" /\ endpoint' = "logout" /\ session.authenticated
            /\ hostname(reqHost') \in allowedHosts) => logoutSucceeds
    /\ (~loginSucceeds /\ ~logoutSucceeds)
            => session'.authenticated = session.authenticated
    /\ (pc = "idle" /\ endpoint' = "login" /\ reqBody'.password # password)
            => (status' \in {401, 403}
                /\ session'.authenticated = session.authenticated)

StreamKinds == {"video", "download"}

\* C22: no video or download request is over (its response complete, or its
\* connection closed by the client) with its read stream still open.
C22_NoStreamLeftOpen ==
    \A r \in ReqIds :
       (/\ node.req[r].kind \in StreamKinds
        /\ node.req[r].at \in {"done", "aborted"})
       => node.req[r].stream \in {"none", "closed"}

\* C22, for the requests whose response was sent to its end: the read
\* stream is closed
C22_ClosedAfterEnd ==
    \A r \in ReqIds :
       (/\ node.req[r].kind \in StreamKinds
        /\ node.req[r].at = "done")
       => node.req[r].stream \in {"none", "closed"}

\* the successions of stages of the state machine of a video request
StageOrder ==
    {<<"Received", "PathValidated">>, <<"PathValidated", "Classified">>,
     <<"Classified", "FullStream">>, <<"Classified", "RangeStream">>,
     <<"FullStream", "Completed">>, <<"RangeStream", "Completed">>,
     <<"Received", "Failed">>, <<"PathValidated", "Failed">>,
     <<"Classified", "Failed">>, <<"FullStream", "Failed">>,
     <<"RangeStream", "Failed">>}

passed(q, stage) == \E i \in 1..Len(q.trace) : q.trace[i] = stage

\* C25: every video request passes the stages Received, PathValidated,
\* Classified, FullStream or RangeStream, Completed or Failed in that order,
\* a failure ending it at any stage. PathValidated is passed only when
\* sanitizePath accepted the path and stat found it, Classified only when it
\* is a regular file with a video extension. The status line and headers of
\* the stream and the file bytes are written, and the read stream exists,
\* only after PathValidated and Classified were passed; a request that failed
\* before streaming has an error status, no file byte and no read stream.
C25_StagesInOrder ==
    \A r \in ReqIds :
       LET q == node.req[r]
       IN  q.kind = "video"
           => /\ q.trace[1] = "Received"
              /\ \A i \in 1..(Len(q.trace) - 1) :
                    <<q.trace[i], q.trace[i + 1]>> \in StageOrder
              /\ passed(q, "PathValidated")
                    => (sanitizePath(q.path).ok /\ q.stats \in {"file", "dir"})
              /\ passed(q, "Classified")
                    => (/\ passed(q, "PathValidated")
                        /\ q.stats = "file"
                        /\ isVideoFile(sanitizePath(q.path).path))
              /\ (q.status \in {200, 206} \/ q.sent > 0 \/ q.stream # "none")
                    => (/\ passed(q, "Classified")
                        /\ passed(q, "FullStream") \/ passed(q, "RangeStream"))
              /\ (passed(q, "Failed")
                  /\ ~passed(q, "FullStream") /\ ~passed(q, "RangeStream"))
                    => (/\ q.status \in {400, 500}
                        /\ q.sent = 0
                        /\ q.stream = "none")

\* C25 witness: a range request for a video has passed all stages and its
\* byte was written
C25_Witness ==
    \E r \in ReqIds :
       /\ node.req[r].kind = "video"
       /\ node.req[r].trace = <<"Received", "PathValidated", "Classified",
                                "RangeStream", "Completed">>
       /\ node.req[r].status = 206
       /\ node.req[r].sent = 1

\* C25 witness: a request for a file that is not a video has failed at the
\* classification
C25_WitnessFailed ==
    \E r \in ReqIds :
       /\ node.req[r].kind = "video"
       /\ node.req[r].path = nN
       /\ node.req[r].trace = <<"Received", "PathValidated", "Failed">>
       /\ node.req[r].status = 400

\* C27: no rename replaces an existing file, and of the rename requests for
\* the same new path that were in flight together at most one is answered
\* with success.
C27_RenameNeverOverwrites ==
    /\ \A r \in ReqIds : ~node.req[r].clobbered
    /\ \A r1, r2 \in ReqIds :
          (/\ r1 # r2
           /\ node.req[r1].kind = "rename" /\ node.req[r2].kind = "rename"
           /\ node.req[r1].target # <<>>
           /\ node.req[r1].target = node.req[r2].target)
          => ~(node.req[r1].status = 200 /\ node.req[r2].status = 200)

\* C27, for the rename requests that are handled one after the other: when
\* an entry exists at the new path the request is answered 400 and neither
\* the filesystem nor the tables change
C27_ExistingNameRefused ==
    [][(/\ pc = "idle"
        /\ endpoint' = "rename"
        /\ hostname(reqHost') \in allowedHosts
        /\ session.authenticated
        /\ sanitizePath(reqBody'.path).ok
        /\ isVideoFile(reqBody'.newName)
        /\ exists(fs, join(dirname(sanitizePath(reqBody'.path).path),
                           reqBody'.newName)))
       => (status' = 400 /\ fs' = fs /\ db' = db)]_vars

\* C28: the process keeps running, whatever happens to the stream of a
\* request.
C28_ServerStaysUp == node.up

====
